---- MODULE Spec2Model ----
(***************************************************************************)
(* fiction-expo-social-auth: the redirect-handshake layer.                 *)
(*                                                                         *)
(* Strings are TLA+ strings; a character is a string of length one and is  *)
(* read with SubSeq.  The JavaScript value undefined is the reserved       *)
(* string Undefined, which no sample input equals.                         *)
(***************************************************************************)
EXTENDS Integers, Sequences, FiniteSets, TLC

(***************************************************************************)
(* Bounds of the model.                                                    *)
(***************************************************************************)
\* number of login calls that may be in flight together
MaxAttempts == 2

(***************************************************************************)
(* String primitives of the host language.                                 *)
(***************************************************************************)
Undefined == "<undefined>"

Char(s, i) == SubSeq(s, i, i)

\* value || fallback, on strings and undefined
Truthy(v) == v # Undefined /\ v # ""

OrElse(v, d) == IF Truthy(v) THEN v ELSE d

\* String.prototype.includes
Includes(s, pat) ==
    \E i \in 1..(Len(s) - Len(pat) + 1) : SubSeq(s, i, i + Len(pat) - 1) = pat

\* index of the first occurrence of character c at or after i, else Len(s)+1
RECURSIVE IndexFrom(_, _, _)
IndexFrom(s, c, i) ==
    IF i > Len(s) THEN Len(s) + 1
    ELSE IF Char(s, i) = c THEN i
    ELSE IndexFrom(s, c, i + 1)

UPPER == "ABCDEFGHIJKLMNOPQRSTUVWXYZ"
LOWER == "abcdefghijklmnopqrstuvwxyz"

LowerChar(c) ==
    IF \E i \in 1..26 : Char(UPPER, i) = c
    THEN Char(LOWER, CHOOSE i \in 1..26 : Char(UPPER, i) = c)
    ELSE c

\* String.prototype.toLowerCase
RECURSIVE toLowerCase(_)
toLowerCase(s) ==
    IF s = "" THEN "" ELSE LowerChar(Head(s)) \o toLowerCase(Tail(s))

\* str.replace(/\+/g, ' ')
RECURSIVE PlusToSpace(_)
PlusToSpace(s) ==
    IF s = "" THEN ""
    ELSE (IF Head(s) = "+" THEN " " ELSE Head(s)) \o PlusToSpace(Tail(s))

HEXDIGITS == "0123456789ABCDEF"
\* printable ASCII: code points 32..95 and 97..126 (the lexer of the
\* specification language rejects code point 96 inside a string)
ASCII_LO == " !\"#$%&'()*+,-./0123456789:;<=>?@ABCDEFGHIJKLMNOPQRSTUVWXYZ[\\]^_"
ASCII_HI == "abcdefghijklmnopqrstuvwxyz{|}~"

IsHex(c) == \E i \in 1..16 : Char(HEXDIGITS, i) = c \/ Char(toLowerCase(HEXDIGITS), i) = c

HexVal(c) ==
    (CHOOSE i \in 1..16 : Char(HEXDIGITS, i) = c \/ Char(toLowerCase(HEXDIGITS), i) = c) - 1

\* the character of a code point; code points outside printable ASCII are
\* outside the model's alphabet and are rendered "?"
Chr(n) ==
    IF n \in 32..95 THEN Char(ASCII_LO, n - 31)
    ELSE IF n \in 97..126 THEN Char(ASCII_HI, n - 96)
    ELSE "?"

\* s holds an escape %XX at i
EscapeAt(s, i) ==
    /\ i + 2 <= Len(s)
    /\ Char(s, i) = "%"
    /\ IsHex(Char(s, i + 1))
    /\ IsHex(Char(s, i + 2))

ByteAt(s, i) == 16 * HexVal(Char(s, i + 1)) + HexVal(Char(s, i + 2))

\* number of continuation bytes a UTF-8 lead byte announces, -1 when the
\* byte cannot start a sequence
Continuations(b) ==
    IF b < 128 THEN 0
    ELSE IF b \in 194..223 THEN 1
    ELSE IF b \in 224..239 THEN 2
    ELSE IF b \in 240..244 THEN 3
    ELSE -1

\* the n escapes starting at i are continuation bytes 0x80..0xBF
RECURSIVE ContinuationsOk(_, _, _)
ContinuationsOk(s, i, n) ==
    IF n = 0 THEN TRUE
    ELSE /\ EscapeAt(s, i)
         /\ ByteAt(s, i) \in 128..191
         /\ ContinuationsOk(s, i + 3, n - 1)

\* decodeURIComponent: [ok |-> FALSE] is a thrown URIError
RECURSIVE DecodeFrom(_, _, _)
DecodeFrom(s, i, acc) ==
    IF i > Len(s) THEN [ok |-> TRUE, val |-> acc]
    ELSE IF Char(s, i) # "%" THEN DecodeFrom(s, i + 1, acc \o Char(s, i))
    ELSE IF ~EscapeAt(s, i) THEN [ok |-> FALSE, val |-> ""]
    ELSE LET b == ByteAt(s, i)
             n == Continuations(b)
         IN  IF n < 0 \/ ~ContinuationsOk(s, i + 3, n)
             THEN [ok |-> FALSE, val |-> ""]
             ELSE DecodeFrom(s, i + 3 * (n + 1), acc \o Chr(b))

decodeURIComponent(s) == DecodeFrom(s, 1, "")

\* the code point of a character of the alphabet
Ord(c) ==
    IF \E i \in 1..Len(ASCII_LO) : Char(ASCII_LO, i) = c
    THEN 31 + (CHOOSE i \in 1..Len(ASCII_LO) : Char(ASCII_LO, i) = c)
    ELSE 96 + (CHOOSE i \in 1..Len(ASCII_HI) : Char(ASCII_HI, i) = c)

\* the characters encodeURIComponent leaves alone: A-Z a-z 0-9 - _ . ! ~ * ' ( )
UNRESERVED == UPPER \o LOWER \o "0123456789-_.!~*'()"

IsUnreserved(c) == \E i \in 1..Len(UNRESERVED) : Char(UNRESERVED, i) = c

\* %XX with upper-case hexadecimal digits
Escape(c) ==
    "%" \o Char(HEXDIGITS, (Ord(c) \div 16) + 1) \o Char(HEXDIGITS, (Ord(c) % 16) + 1)

\* encodeURIComponent, on strings of the alphabet
RECURSIVE encodeURIComponent(_)
encodeURIComponent(s) ==
    IF s = "" THEN ""
    ELSE (IF IsUnreserved(Head(s)) THEN Head(s) ELSE Escape(Head(s)))
         \o encodeURIComponent(Tail(s))

(***************************************************************************)
(* constants.ts                                                            *)
(***************************************************************************)
ERR_REQUEST_CANCELED == "ERR_REQUEST_CANCELED"
ERR_INVALID_TOKEN == "ERR_INVALID_TOKEN"
ERR_NETWORK == "ERR_NETWORK"
ERR_APPLE_NOT_AVAILABLE == "ERR_APPLE_NOT_AVAILABLE"
ERR_UNKNOWN_PROVIDER == "ERR_UNKNOWN_PROVIDER"
ERR_AUTH_FAILED == "ERR_AUTH_FAILED"

ERROR_CODES ==
    { ERR_REQUEST_CANCELED, ERR_INVALID_TOKEN, ERR_NETWORK,
      ERR_APPLE_NOT_AVAILABLE, ERR_UNKNOWN_PROVIDER, ERR_AUTH_FAILED }

AUTH_BACKEND_URL == "https://our-app-delta.vercel.app"

GOOGLE == "google"
APPLE == "apple"
FACEBOOK == "facebook"
GITHUB == "github"
LINKEDIN == "linkedin"

\* the values of PROVIDERS
PROVIDERS == { GOOGLE, APPLE, FACEBOOK, GITHUB, LINKEDIN }

\* the providers that have an orchestrator
Providers == { GOOGLE, APPLE, FACEBOOK }

(***************************************************************************)
(* providers/types.ts: AuthResult.  A Failure built without an errorCode   *)
(* carries errorCode = Undefined.                                          *)
(***************************************************************************)
Success(id, email, name, photo) ==
    [ action |-> "success",
      user   |-> [ id |-> id, email |-> email, name |-> name, photo |-> photo ],
      id |-> id, email |-> email, name |-> name, photo |-> photo ]

Failure(error, errorCode) ==
    [ action |-> "failed", error |-> error, errorCode |-> errorCode ]

\* the value of a promise that has not settled
NoResult == [ action |-> "pending" ]

IsSuccess(r) == r.action = "success"
IsFailure(r) == r.action = "failed"

(***************************************************************************)
(* utils/urlParser.ts                                                      *)
(***************************************************************************)
EmptyParams == [ k \in {} |-> "" ]

\* params.key
Get(params, k) == IF k \in DOMAIN params THEN params[k] ELSE Undefined

\* url.includes('?') ? url.split('?')[1] : url
QueryString(url) ==
    IF Includes(url, "?")
    THEN LET a == IndexFrom(url, "?", 1)
             b == IndexFrom(url, "?", a + 1)
         IN  SubSeq(url, a + 1, b - 1)
    ELSE url

IsKeyChar(c) == c \notin { "?", "&", "=" }

\* end (exclusive) of the run of [^?&=] starting at i
RECURSIVE KeyRunEnd(_, _)
KeyRunEnd(q, i) ==
    IF i > Len(q) \/ ~IsKeyChar(Char(q, i)) THEN i ELSE KeyRunEnd(q, i + 1)

\* /([^?&=]+)=([^&]*)/ matches at i
MatchesAt(q, i) ==
    LET e == KeyRunEnd(q, i) IN e > i /\ e <= Len(q) /\ Char(q, e) = "="

\* the while loop of regex.exec with the /g flag, lastIndex = i - 1; a
\* decodeURIComponent that throws leaves the loop through the catch
RECURSIVE ExecLoop(_, _, _)
ExecLoop(q, i, params) ==
    IF i > Len(q) THEN params
    ELSE IF ~MatchesAt(q, i) THEN ExecLoop(q, i + 1, params)
    ELSE LET e    == KeyRunEnd(q, i)
             vEnd == IndexFrom(q, "&", e + 1)
             key  == SubSeq(q, i, e - 1)
             dec  == decodeURIComponent(PlusToSpace(SubSeq(q, e + 1, vEnd - 1)))
         IN  IF ~dec.ok THEN params
             ELSE ExecLoop(q, vEnd, (key :> dec.val) @@ params)

parseCallbackUrl(url) ==
    LET queryString == QueryString(url)
    IN  IF queryString = "" THEN EmptyParams
        ELSE ExecLoop(queryString, 1, EmptyParams)

\* the while loop is left by an exception of decodeURIComponent
RECURSIVE ExecRaises(_, _)
ExecRaises(q, i) ==
    IF i > Len(q) THEN FALSE
    ELSE IF ~MatchesAt(q, i) THEN ExecRaises(q, i + 1)
    ELSE LET e    == KeyRunEnd(q, i)
             vEnd == IndexFrom(q, "&", e + 1)
         IN  IF ~decodeURIComponent(PlusToSpace(SubSeq(q, e + 1, vEnd - 1))).ok THEN TRUE
             ELSE ExecRaises(q, vEnd)

\* the try block of parseCallbackUrl raises
TryRaises(url) == QueryString(url) # "" /\ ExecRaises(QueryString(url), 1)

\* a parseCallbackUrl without the catch clause
parseCallbackUrlRaises_NoCatch(url) == TryRaises(url)

\* parseCallbackUrl(url) raises: the catch clause takes every exception of
\* the try block, logs it and falls through to return params
parseCallbackUrlRaises(url) == IF TryRaises(url) THEN FALSE ELSE FALSE

\* a normalizer that does not look at the email
paramsToAuthResult_IdOnly(params) ==
    IF Get(params, "action") = "success" /\ Truthy(Get(params, "id"))
    THEN Success(Get(params, "id"), OrElse(Get(params, "email"), ""),
                 OrElse(Get(params, "name"), ""), OrElse(Get(params, "photo"), ""))
    ELSE Failure(OrElse(Get(params, "error"), "Authentication failed"), Undefined)

\* a normalizer that trusts the action marker alone
paramsToAuthResult_ActionOnly(params) ==
    IF Get(params, "action") = "success"
    THEN Success(OrElse(Get(params, "id"), ""), OrElse(Get(params, "email"), ""),
                 OrElse(Get(params, "name"), ""), OrElse(Get(params, "photo"), ""))
    ELSE Failure(OrElse(Get(params, "error"), "Authentication failed"), Undefined)

paramsToAuthResult(params) ==
    IF /\ Get(params, "action") = "success"
       /\ Truthy(Get(params, "id"))
       /\ Truthy(Get(params, "email"))
    THEN Success(params["id"], params["email"],
                 OrElse(Get(params, "name"), ""), OrElse(Get(params, "photo"), ""))
    ELSE Failure(OrElse(Get(params, "error"), "Authentication failed"), Undefined)

\* a builder that puts the callback address into the URL as it is
buildAuthUrl_RawCallback(backendUrl, provider, callbackUrl) ==
    backendUrl \o "?backto=" \o callbackUrl \o "&auth=" \o provider

buildAuthUrl(backendUrl, provider, callbackUrl) ==
    backendUrl \o "?backto=" \o encodeURIComponent(callbackUrl) \o "&auth=" \o provider

(***************************************************************************)
(* utils/errorHandler.ts                                                   *)
(***************************************************************************)
ERROR_MESSAGES(code) ==
    CASE code = ERR_REQUEST_CANCELED    -> "Sign-in was cancelled. Please try again."
      [] code = ERR_INVALID_TOKEN       -> "Authentication failed. Please try again."
      [] code = ERR_NETWORK             -> "Network error. Please check your connection and try again."
      [] code = ERR_APPLE_NOT_AVAILABLE -> "Apple Sign-In is not available on this device."
      [] code = ERR_UNKNOWN_PROVIDER    -> "Unknown authentication provider."
      [] code = ERR_AUTH_FAILED         -> "Authentication failed. Please try again."
      [] OTHER                          -> Undefined

\* a thrown value: kind is "SocialAuthError", "Error" (any other Error, code
\* being its .code property if it has one) or the kind of a value that is
\* not an Error: "value", "string" (message being the string), "object"
\* (message being its error property, code its errorCode property), "null",
\* "undefined"
Thrown(kind, message, code) == [ kind |-> kind, message |-> message, code |-> code ]

\* new SocialAuthError(code, message)
SocialAuthError(code, message) ==
    Thrown("SocialAuthError",
           OrElse(message, OrElse(ERROR_MESSAGES(code), "Unknown error")), code)

\* a classifier that looks for the network words first
ClassifyMessage_NetworkFirst(raw) ==
    LET message == toLowerCase(raw)
    IN  IF Includes(message, "network") \/ Includes(message, "fetch")
           \/ Includes(message, "connection")
        THEN Failure(ERROR_MESSAGES(ERR_NETWORK), ERR_NETWORK)
        ELSE IF Includes(message, "cancel") \/ Includes(message, "cancelled")
                \/ Includes(message, "dismissed")
        THEN Failure(ERROR_MESSAGES(ERR_REQUEST_CANCELED), ERR_REQUEST_CANCELED)
        ELSE IF Includes(message, "token") \/ Includes(message, "invalid")
                \/ Includes(message, "expired")
        THEN Failure(ERROR_MESSAGES(ERR_INVALID_TOKEN), ERR_INVALID_TOKEN)
        ELSE Failure(raw, ERR_AUTH_FAILED)

\* handleError: the branch for an Error that is no SocialAuthError
ClassifyMessage(raw) ==
    LET message == toLowerCase(raw)
    IN  IF Includes(message, "cancel") \/ Includes(message, "cancelled")
           \/ Includes(message, "dismissed")
        THEN Failure(ERROR_MESSAGES(ERR_REQUEST_CANCELED), ERR_REQUEST_CANCELED)
        ELSE IF Includes(message, "network") \/ Includes(message, "fetch")
                \/ Includes(message, "connection")
        THEN Failure(ERROR_MESSAGES(ERR_NETWORK), ERR_NETWORK)
        ELSE IF Includes(message, "token") \/ Includes(message, "invalid")
                \/ Includes(message, "expired")
        THEN Failure(ERROR_MESSAGES(ERR_INVALID_TOKEN), ERR_INVALID_TOKEN)
        ELSE Failure(raw, ERR_AUTH_FAILED)

\* a classifier whose fallback carries no code
handleError_NoFallbackCode(error) ==
    IF error.kind = "SocialAuthError" THEN Failure(error.message, error.code)
    ELSE IF error.kind = "Error" THEN ClassifyMessage(error.message)
    ELSE Failure("An unexpected error occurred", Undefined)

handleError(error) ==
    IF error.kind = "SocialAuthError" THEN Failure(error.message, error.code)
    ELSE IF error.kind = "Error" THEN ClassifyMessage(error.message)
    ELSE Failure("An unexpected error occurred", ERR_AUTH_FAILED)

\* logError reads the globals __DEV__ and process: reading an undeclared
\* global throws a ReferenceError
logErrorThrows(h) == h.dev = "undeclared" \/ (h.dev = "false" /\ ~h.process)

ReferenceError == Thrown("Error", "__DEV__ is not defined", Undefined)

(***************************************************************************)
(* utils/platform.ts.  A host is the ambient environment of the calls:     *)
(*   navigator   typeof navigator !== 'undefined'                          *)
(*   product     navigator.product                                         *)
(*   expoGlobal  typeof expo !== 'undefined'                               *)
(*   rnOS        Platform.OS of require('react-native'), "throws" when     *)
(*               the require throws                                        *)
(*   ua          what navigator.userAgent names                            *)
(*   window      the global window exists                                  *)
(*   dev         the global __DEV__: "undeclared", "true" or "false"       *)
(*   process     the global process exists                                 *)
(*   appleAuth   expo-apple-authentication: "missing" (require throws),    *)
(*               "rejects", "unavailable" or "available" (what the promise *)
(*               of isAvailableAsync settles with)                         *)
(*   webBrowser  expo-web-browser and expo-linking are installed           *)
(***************************************************************************)
Host(navigator, product, expoGlobal, rnOS, ua, window, dev, process, appleAuth, webBrowser) ==
    [ navigator |-> navigator, product |-> product, expoGlobal |-> expoGlobal,
      rnOS |-> rnOS, ua |-> ua, window |-> window, dev |-> dev,
      process |-> process, appleAuth |-> appleAuth, webBrowser |-> webBrowser ]

\* the try block of getPlatformInfo throws: require('react-native') or the
\* read of RN.Platform.OS fails
PlatformProbeThrows(h) == h.navigator /\ h.product = "ReactNative" /\ h.rnOS = "throws"

\* a detection whose catch clause leaves isWeb as it was
getPlatformInfo_CatchKeepsNative(h) ==
    LET isReactNative == h.navigator /\ h.product = "ReactNative"
        isExpo        == h.expoGlobal \/ isReactNative
        isWeb         == ~isReactNative
        isIOS         == IF isReactNative THEN h.rnOS = "ios"
                         ELSE h.navigator /\ h.ua = "iphone"
        isAndroid     == IF isReactNative THEN h.rnOS = "android"
                         ELSE h.navigator /\ h.ua = "android"
    IN  [ isIOS |-> isIOS, isAndroid |-> isAndroid, isWeb |-> isWeb, isExpo |-> isExpo,
          supportsNativeAppleAuth |-> isIOS /\ isExpo /\ ~isWeb ]

\* getPlatformInfo() raises: the catch clause of its try swallows what the
\* probe throws, and nothing outside the try can throw
getPlatformInfoRaises(h) == IF PlatformProbeThrows(h) THEN FALSE ELSE FALSE

getPlatformInfo(h) ==
    LET isReactNative == h.navigator /\ h.product = "ReactNative"
        isExpo        == h.expoGlobal \/ isReactNative
        isWeb         == IF isReactNative THEN h.rnOS = "throws" ELSE TRUE
        isIOS         == IF isReactNative THEN h.rnOS = "ios"
                         ELSE h.navigator /\ h.ua = "iphone"
        isAndroid     == IF isReactNative THEN h.rnOS = "android"
                         ELSE h.navigator /\ h.ua = "android"
    IN  [ isIOS |-> isIOS, isAndroid |-> isAndroid, isWeb |-> isWeb, isExpo |-> isExpo,
          supportsNativeAppleAuth |-> isIOS /\ isExpo /\ ~isWeb ]

isNativeAppleAuthAvailable(h) ==
    IF ~getPlatformInfo(h).supportsNativeAppleAuth THEN FALSE
    ELSE h.appleAuth = "available"

\* the try block of isNativeAppleAuthAvailable throws:
\* require('expo-apple-authentication') fails or the promise of
\* isAvailableAsync() rejects
CredentialProbeThrows(h) ==
    getPlatformInfo(h).supportsNativeAppleAuth /\ h.appleAuth \in { "missing", "rejects" }

\* the promise of isNativeAppleAuthAvailable() rejects: the catch clause
\* returns false
isNativeAppleAuthAvailableRaises(h) == IF CredentialProbeThrows(h) THEN FALSE ELSE FALSE

\* the hosts the calls are made on
Hosts ==
    { Host(TRUE, "Gecko", FALSE, "throws", "desktop", TRUE, "undeclared", FALSE, "missing", FALSE),
      Host(FALSE, "", FALSE, "throws", "desktop", FALSE, "true", TRUE, "missing", FALSE),
      Host(TRUE, "Gecko", TRUE, "throws", "desktop", TRUE, "true", TRUE, "missing", TRUE),
      Host(TRUE, "ReactNative", FALSE, "ios", "iphone", TRUE, "true", TRUE, "available", TRUE),
      Host(TRUE, "ReactNative", FALSE, "ios", "iphone", TRUE, "false", TRUE, "unavailable", TRUE),
      Host(TRUE, "ReactNative", FALSE, "ios", "iphone", TRUE, "true", TRUE, "missing", FALSE),
      Host(TRUE, "ReactNative", FALSE, "android", "android", TRUE, "true", TRUE, "missing", TRUE),
      Host(TRUE, "ReactNative", TRUE, "throws", "desktop", TRUE, "true", TRUE, "missing", TRUE) }

(***************************************************************************)
(* State.                                                                  *)
(*   host         the environment the calls run in                         *)
(*   att          one record per login call (see IdleAttempt)              *)
(*   win          the popup windows opened so far, a handle being an index *)
(*   justSettled  the calls whose promise settled in the last step         *)
(*   call         the last direct call of a utility function: its name,    *)
(*                argument and return value (see UnitSpec)                 *)
(*   adapter      one framework adapter instance: its reactive state and   *)
(*                its login() calls (see AdapterSpec)                      *)
(***************************************************************************)
VARIABLES host, att, win, justSettled, call, adapter

vars == << host, att, win, justSettled, call, adapter >>

NoCall == [ fn |-> "none", arg |-> << >>, out |-> << >> ]

Attempts == 1..MaxAttempts

\* no adapter has been created
NoAdapter == [ kind |-> "none" ]

NoThrown == Thrown("none", Undefined, Undefined)

NoLocal == [ id |-> "", email |-> "", name |-> "" ]

NoAwait == [ api |-> "none" ]

\* pc         "idle", "polling" (popup promise pending), "session" (awaiting
\*            openAuthSessionAsync), "signin" (awaiting signInAsync), "verify"
\*            (awaiting the verification fetch), "done" (the login promise
\*            resolved to ret), "rejected" (it rejected with rejection)
\* popup      the handle window.open returned, 0 for none
\* poll       the setInterval timer: "none", "live", "off" (cleared)
\* timeout    the setTimeout timer: "none", "pending", "fired"
\* listener   the 'message' listener: "none", "live", "off" (removed)
\* caught     the exception the orchestrator's catch received
\* local      the fields extracted from the native credential
\* auth       the name fictionLogin was called with, Undefined for a direct
\*            call of an orchestrator
\* authUrl    the authorization URL handed to window.open or to
\*            openAuthSessionAsync, Undefined before that
\* The remaining fields record history: open is what window.open did
\* ("opened", "blocked", "throws"), closeCalls counts this call's
\* popup.close() invocations, settledBy names the path whose resolve settled
\* the promise, bySrc is the source window of the message that settled it,
\* msgSeen says the handler acted on a recognized message, pollFoundClosed
\* that a poll tick took the popup.closed branch, timeoutSaw is what
\* popup.closed was when the timeout ran, awaited is what the last awaited
\* host call (openAuthSessionAsync, signInAsync, fetch) settled with, heard
\* says a same-origin 'oauth-callback' message with params was dispatched on
\* the page while the call was polling and heardParams is the params of the
\* first such message.
IdleAttempt ==
    [ pc |-> "idle", provider |-> "", transport |-> "none", popup |-> 0,
      poll |-> "none", timeout |-> "none", listener |-> "none",
      ret |-> NoResult, caught |-> NoThrown, rejection |-> NoThrown,
      local |-> NoLocal, auth |-> Undefined, authUrl |-> Undefined, awaited |-> NoAwait, open |-> "none",
      closeCalls |-> 0, settledBy |-> "none", bySrc |-> -1, msgSeen |-> FALSE,
      pollFoundClosed |-> FALSE, timeoutSaw |-> "none",
      heard |-> FALSE, heardParams |-> EmptyParams ]

\* a window: closed is popup.closed, loc its current document (a closed
\* window has none: the code does not read the location once closed is true)
LocBlank == [ readable |-> TRUE, href |-> "about:blank" ]
LocProvider == [ readable |-> FALSE, href |-> "https://idp.example/authorize" ]

\* window.close(), or the user closing the window
Close(w) == [ w EXCEPT !.closed = TRUE, !.loc = LocBlank ]

NewWindow(name) ==
    [ name |-> name, closed |-> FALSE, loc |-> LocBlank ]

\* the documents a popup may show: reading location.href of a cross-origin
\* document throws
Locs ==
    { LocBlank, LocProvider,
      [ readable |-> TRUE, href |-> "https://a.io/auth/callback?action=success&id=7&email=e%40x.io&name=Al+B" ],
      [ readable |-> TRUE, href |-> "https://a.io/auth/callback?action=failed&error=denied" ] }

HasMarker(url) == Includes(url, "action=success") \/ Includes(url, "action=failed")

(***************************************************************************)
(* The promise of a login call: the first resolve settles it, later ones   *)
(* are ignored.                                                            *)
(***************************************************************************)
\* a promise whose every resolve replaces the value
Resolve_LastWins(at, value, by, src) ==
    IF at.pc = "done" THEN [ at EXCEPT !.ret = value ]
    ELSE [ at EXCEPT !.pc = "done", !.ret = value, !.settledBy = by, !.bySrc = src ]

Resolve(at, value, by, src) ==
    IF at.pc = "done" THEN at
    ELSE [ at EXCEPT !.pc = "done", !.ret = value, !.settledBy = by, !.bySrc = src ]

\* return value from an async function
Return(at, value) == [ at EXCEPT !.pc = "done", !.ret = value ]

\* the promise of an orchestrator rejects: a direct caller sees the
\* rejection, the catch block of fictionLogin returns handleError of it
Rejected(at, error) ==
    IF at.auth = Undefined
    THEN [ at EXCEPT !.pc = "rejected", !.rejection = error ]
    ELSE [ at EXCEPT !.pc = "done", !.rejection = error, !.ret = handleError(error) ]

\* the catch block of an orchestrator: logError, then return handleError
Caught(at, h, error) ==
    IF logErrorThrows(h)
    THEN Rejected([ at EXCEPT !.caught = error ], ReferenceError)
    ELSE [ at EXCEPT !.pc = "done", !.caught = error, !.ret = handleError(error) ]

(***************************************************************************)
(* providers/*.ts: the results the transports build                        *)
(***************************************************************************)
PopupBlockedResult ==
    Failure("Popup was blocked. Please allow popups for this site.", ERR_AUTH_FAILED)

\* a closed window reported as a plain failure
WindowClosedResult_AuthFailed == Failure("Sign-in window was closed", ERR_AUTH_FAILED)

WindowClosedResult == Failure("Sign-in window was closed", ERR_REQUEST_CANCELED)

\* a timeout result without a code
TimedOutResult_NoCode == Failure("Authentication timed out", Undefined)

TimedOutResult == Failure("Authentication timed out", ERR_AUTH_FAILED)

CancelledResult == Failure("Sign-in was cancelled", ERR_REQUEST_CANCELED)

AuthFailedResult == Failure("Authentication failed", ERR_AUTH_FAILED)

(***************************************************************************)
(* Orchestrators: the transport each one chooses                           *)
(***************************************************************************)
\* googleLogin, facebookLogin
WebOrMobile(platform) ==
    IF platform.isWeb /\ ~platform.isExpo THEN "popup" ELSE "session"

\* an appleLogin that trusts the runtime probe alone
AppleTransport_ProbeOnly(h) ==
    IF h.appleAuth = "available" THEN "native" ELSE WebOrMobile(getPlatformInfo(h))

\* appleLogin
AppleTransport(h) ==
    LET platform == getPlatformInfo(h)
    IN  IF isNativeAppleAuthAvailable(h) /\ platform.isIOS /\ ~platform.isWeb
        THEN "native"
        ELSE WebOrMobile(platform)

Transport(p, h) ==
    IF p = APPLE THEN AppleTransport(h) ELSE WebOrMobile(getPlatformInfo(h))

(***************************************************************************)
(* Popup transport: googleLoginWeb, appleLoginWeb, facebookLoginWeb        *)
(***************************************************************************)
\* googleLoginWeb and appleLoginWeb register a message listener,
\* facebookLoginWeb does not
HasMessageWatcher(p) == p \in { GOOGLE, APPLE }

WindowName(p) == p \o "Auth"

\* window.open(url, name, features) that is not blocked: a window of that
\* name that is still open is reused, else a new one is created
OpenWindow(wins, name) ==
    IF \E w \in DOMAIN wins : wins[w].name = name /\ ~wins[w].closed
    THEN [ handle |-> CHOOSE w \in DOMAIN wins : wins[w].name = name /\ ~wins[w].closed,
           wins |-> wins ]
    ELSE [ handle |-> Len(wins) + 1, wins |-> Append(wins, NewWindow(name)) ]

\* the branch if (!popup), with a listener registered before the null test
Blocked_ListensFirst(at) ==
    Resolve([ at EXCEPT !.listener = "live" ], PopupBlockedResult, "blocked", -1)

\* the branch if (!popup)
Blocked(at) == Resolve(at, PopupBlockedResult, "blocked", -1)

\* the registrations that follow a popup that opened
Watch(at, handle) ==
    [ at EXCEPT !.pc = "polling", !.popup = handle,
                !.listener = IF HasMessageWatcher(at.provider) THEN "live" ELSE "none",
                !.poll = "live", !.timeout = "pending" ]

\* window.location.origin of the page the calls are made on
LocationOrigin == "https://a.io"

\* customCallbackUrl || window.location.origin + '/auth/callback', the calls
\* passing no options
WebCallbackUrl == OrElse(Undefined, LocationOrigin \o "/auth/callback")

\* the executor of the promise; open is what window.open does: "opened",
\* "blocked" (returns null) or "throws"
loginWeb(at0, h, open, wins) ==
    IF ~h.window
    THEN [ at |-> Caught(at0, h, Thrown("Error", "window is not defined", Undefined)),
           win |-> wins ]
    ELSE LET at == [ at0 EXCEPT !.open = open,
                                !.authUrl = buildAuthUrl(AUTH_BACKEND_URL, at0.provider,
                                                         WebCallbackUrl) ]
         IN  IF open = "throws"
             THEN [ at |-> Caught(at, h, Thrown("Error",
                                     "Unable to open a window with invalid URL", Undefined)),
                    win |-> wins ]
             ELSE IF open = "blocked"
             THEN [ at |-> Blocked(at), win |-> wins ]
             ELSE LET o == OpenWindow(wins, WindowName(at.provider))
                  IN  [ at |-> Watch(at, o.handle), win |-> o.wins ]

RemoveListener(at) == IF at.listener = "live" THEN [ at EXCEPT !.listener = "off" ] ELSE at

ClearInterval(at) == IF at.poll = "live" THEN [ at EXCEPT !.poll = "off" ] ELSE at

\* a handler that does not compare event.origin
Recognized_AnyOrigin(at, ev) ==
    at.listener = "live" /\ ev.type = "oauth-callback"

\* handleMessage acts on the event ev = [src, origin, type, hasParams, params]
Recognized(at, ev) ==
    at.listener = "live" /\ ev.origin = "same" /\ ev.type = "oauth-callback"

\* handleMessage: paramsToAuthResult(undefined) throws a TypeError after the
\* listener is removed and the popup closed
handleMessage(at, ev) ==
    IF ~Recognized(at, ev) THEN at
    ELSE LET closed == [ RemoveListener(at) EXCEPT !.closeCalls = @ + 1, !.msgSeen = TRUE ]
         IN  IF ev.hasParams
             THEN Resolve(closed, paramsToAuthResult(ev.params), "message", ev.src)
             ELSE closed

\* a poll tick that stops polling when the address cannot be read
pollResult_CrossOriginStops(at, w) ==
    IF w.closed
    THEN Resolve([ RemoveListener(ClearInterval(at)) EXCEPT !.pollFoundClosed = TRUE ],
                 WindowClosedResult, "pollClosed", -1)
    ELSE IF ~w.loc.readable THEN ClearInterval(at)
    ELSE IF HasMarker(w.loc.href)
    THEN Resolve([ RemoveListener(ClearInterval(at)) EXCEPT !.closeCalls = @ + 1 ],
                 paramsToAuthResult(parseCallbackUrl(w.loc.href)), "pollMarker", -1)
    ELSE at

\* a poll tick that settles from every address it can read
pollResult_AnyReadable(at, w) ==
    IF w.closed
    THEN Resolve([ RemoveListener(ClearInterval(at)) EXCEPT !.pollFoundClosed = TRUE ],
                 WindowClosedResult, "pollClosed", -1)
    ELSE IF ~w.loc.readable THEN at
    ELSE Resolve([ RemoveListener(ClearInterval(at)) EXCEPT !.closeCalls = @ + 1 ],
                 paramsToAuthResult(parseCallbackUrl(w.loc.href)), "pollMarker", -1)

\* a poll tick that reads the address before it tests popup.closed
pollResult_AddressFirst(at, w) ==
    IF w.loc.readable /\ HasMarker(w.loc.href)
    THEN Resolve([ RemoveListener(ClearInterval(at)) EXCEPT !.closeCalls = @ + 1 ],
                 paramsToAuthResult(parseCallbackUrl(w.loc.href)), "pollMarker", -1)
    ELSE IF w.closed
    THEN Resolve([ RemoveListener(ClearInterval(at)) EXCEPT !.pollFoundClosed = TRUE ],
                 WindowClosedResult, "pollClosed", -1)
    ELSE at

\* the callback of setInterval; w is the popup
pollResult(at, w) ==
    IF w.closed
    THEN Resolve([ RemoveListener(ClearInterval(at)) EXCEPT !.pollFoundClosed = TRUE ],
                 WindowClosedResult, "pollClosed", -1)
    ELSE IF ~w.loc.readable THEN at
    ELSE IF HasMarker(w.loc.href)
    THEN Resolve([ RemoveListener(ClearInterval(at)) EXCEPT !.closeCalls = @ + 1 ],
                 paramsToAuthResult(parseCallbackUrl(w.loc.href)), "pollMarker", -1)
    ELSE at

\* the poll tick calls popup.close()
pollCloses(w) == ~w.closed /\ w.loc.readable /\ HasMarker(w.loc.href)

\* a timeout that tears down without resolving
timeoutResult_NoResolve(at, w) ==
    [ RemoveListener(ClearInterval(at)) EXCEPT
          !.timeout = "fired",
          !.timeoutSaw = IF w.closed THEN "closed" ELSE "open",
          !.closeCalls = IF w.closed THEN @ ELSE @ + 1 ]

\* a timeout that leaves the message listener registered
timeoutResult_KeepsListener(at, w) ==
    Resolve([ ClearInterval(at) EXCEPT
                  !.timeout = "fired",
                  !.timeoutSaw = IF w.closed THEN "closed" ELSE "open",
                  !.closeCalls = IF w.closed THEN @ ELSE @ + 1 ],
            TimedOutResult, "timeout", -1)

\* a timeout that calls popup.close() without testing popup.closed
timeoutResult_AlwaysCloses(at, w) ==
    Resolve([ RemoveListener(ClearInterval(at)) EXCEPT
                  !.timeout = "fired",
                  !.timeoutSaw = IF w.closed THEN "closed" ELSE "open",
                  !.closeCalls = @ + 1 ],
            TimedOutResult, "timeout", -1)

\* the callback of setTimeout; w is the popup
timeoutResult(at, w) ==
    Resolve([ RemoveListener(ClearInterval(at)) EXCEPT
                  !.timeout = "fired",
                  !.timeoutSaw = IF w.closed THEN "closed" ELSE "open",
                  !.closeCalls = IF w.closed THEN @ ELSE @ + 1 ],
            TimedOutResult, "timeout", -1)

(***************************************************************************)
(* Embedded-session transport: googleLoginMobile, appleLoginMobile,        *)
(* facebookLoginMobile                                                     *)
(***************************************************************************)
\* what Linking.createURL() returns in the application
createURL == "app://cb"

\* customCallbackUrl || Linking.createURL(), the calls passing no options
MobileCallbackUrl == OrElse(Undefined, createURL)

\* up to the await of openAuthSessionAsync
loginMobile(at, h) ==
    IF ~h.webBrowser
    THEN Caught(at, h, Thrown("Error", "Cannot find module 'expo-web-browser'", Undefined))
    ELSE [ at EXCEPT !.pc = "session",
                     !.authUrl = buildAuthUrl(AUTH_BACKEND_URL, at.provider,
                                              MobileCallbackUrl) ]

\* a session that takes a dismissal for any other end
sessionResult_DismissFails(result) ==
    IF result.type = "success" /\ Truthy(result.url)
    THEN paramsToAuthResult(parseCallbackUrl(result.url))
    ELSE IF result.type = "cancel"
    THEN CancelledResult
    ELSE AuthFailedResult

\* the value for the result of openAuthSessionAsync
sessionResult(result) ==
    IF result.type = "success" /\ Truthy(result.url)
    THEN paramsToAuthResult(parseCallbackUrl(result.url))
    ELSE IF result.type = "cancel" \/ result.type = "dismiss"
    THEN CancelledResult
    ELSE AuthFailedResult

\* what ends the session: a result, or a rejection
SessionOutcomes ==
    [ kind : { "result" }, type : { "success" },
      url : { Undefined, "", "app://cb?action=success&id=7&email=e%40x.io",
              "app://cb?action=success&email=e%40x.io" },
      error : { NoThrown } ]
    \cup [ kind : { "result" }, type : { "cancel", "dismiss", "locked" },
           url : { Undefined }, error : { NoThrown } ]
    \cup [ kind : { "throws" }, type : { "" }, url : { Undefined },
           error : { Thrown("Error", "", Undefined),
                     Thrown("Error", "Network request failed", Undefined),
                     Thrown("value", Undefined, Undefined) } ]

(***************************************************************************)
(* Native credential transport: appleLoginNative                           *)
(***************************************************************************)
\* String.prototype.trim, on spaces
RECURSIVE TrimLeft(_)
TrimLeft(s) == IF s # "" /\ Head(s) = " " THEN TrimLeft(Tail(s)) ELSE s

RECURSIVE TrimRight(_)
TrimRight(s) ==
    IF s # "" /\ Char(s, Len(s)) = " " THEN TrimRight(SubSeq(s, 1, Len(s) - 1)) ELSE s

Trim(s) == TrimRight(TrimLeft(s))

\* a catch block that reports every error as a cancellation
nativeCatch_AlwaysCancelled(at, h, error) == Return(at, CancelledResult)

\* the catch block of appleLoginNative
nativeCatch(at, h, error) ==
    IF error.code = "ERR_REQUEST_CANCELED" \/ error.code = "ERR_CANCELED"
    THEN Return(at, CancelledResult)
    ELSE Caught(at, h, error)

\* up to the await of signInAsync; available is what isAvailableAsync says
\* this time
nativeStart(at, h, available) ==
    IF ~available
    THEN nativeCatch(at, h, SocialAuthError(ERR_APPLE_NOT_AVAILABLE, Undefined))
    ELSE [ at EXCEPT !.pc = "signin" ]

\* the fields extracted from a credential
LocalFields(credential) ==
    [ id    |-> credential.user,
      email |-> OrElse(credential.email, ""),
      name  |-> Trim(OrElse(credential.givenName, "") \o " "
                     \o OrElse(credential.familyName, "")) ]

LocalSuccess(local) == Success(local.id, local.email, local.name, "")

\* from the credential to the await of fetch, or to the return
nativeCredential(at, credential) ==
    IF Truthy(credential.identityToken)
    THEN [ at EXCEPT !.pc = "verify", !.local = LocalFields(credential) ]
    ELSE Return([ at EXCEPT !.local = LocalFields(credential) ],
                LocalSuccess(LocalFields(credential)))

\* a verification whose failure fails the call
nativeVerified_FailsOnError(at, h, out) ==
    IF out.kind = "ok"
    THEN Return(at, Success(OrElse(out.data.id, at.local.id),
                            OrElse(out.data.email, at.local.email),
                            OrElse(out.data.name, at.local.name),
                            OrElse(out.data.photo, "")))
    ELSE IF out.kind = "notOk" THEN Return(at, LocalSuccess(at.local))
    ELSE nativeCatch(at, h, Thrown("Error", "Network request failed", Undefined))

\* after the fetch; out.kind is "throws" (fetch rejects), "notOk", "badJson"
\* (response.json() rejects) or "ok" with out.data
nativeVerified(at, h, out) ==
    IF out.kind = "ok"
    THEN Return(at, Success(OrElse(out.data.id, at.local.id),
                            OrElse(out.data.email, at.local.email),
                            OrElse(out.data.name, at.local.name),
                            OrElse(out.data.photo, "")))
    ELSE IF out.kind = "notOk" THEN Return(at, LocalSuccess(at.local))
    ELSE IF logErrorThrows(h) THEN nativeCatch(at, h, ReferenceError)
    ELSE Return(at, LocalSuccess(at.local))

\* what signInAsync does
\* (email and fullName come with the first grant only)
Credentials ==
    [ user : { "001.u" }, email : { "e@x.io" }, givenName : { "Al" },
      familyName : { "B" }, identityToken : { Undefined, "tok" } ]
    \cup [ user : { "001.u" }, email : { Undefined }, givenName : { Undefined },
           familyName : { Undefined }, identityToken : { Undefined, "tok" } ]

SignInErrors ==
    { Thrown("Error", "The user canceled the sign-in flow", "ERR_REQUEST_CANCELED"),
      Thrown("Error", "canceled", "ERR_CANCELED"),
      Thrown("Error", "boom", "ERR_INVALID_RESPONSE") }

\* what the verification call does
NoData == [ id |-> Undefined, email |-> Undefined, name |-> Undefined, photo |-> Undefined ]

VerifyOutcomes ==
    [ kind : { "throws", "notOk", "badJson" }, data : { NoData } ]
    \cup [ kind : { "ok" },
           data : { NoData,
                    [ id |-> "b9", email |-> "v@y.io", name |-> "V", photo |-> "p.png" ] } ]

(***************************************************************************)
(* Inputs of the environment                                               *)
(***************************************************************************)
DeniedParams == ("action" :> "failed") @@ ("error" :> "denied")

MsgParams ==
    { ("action" :> "success") @@ ("id" :> "7") @@ ("email" :> "e@x.io") @@ ("name" :> "Al B"),
      DeniedParams }

\* a message event on the host window: src is the popup that posted it,
\* data.params is absent when hasParams is FALSE (the payload of an event the
\* handler ignores is not enumerated)
MsgEvents ==
    { ev \in [ src : 1..MaxAttempts, origin : { "same", "other" },
               type : { "oauth-callback", "other" }, hasParams : BOOLEAN,
               params : MsgParams ] :
        /\ ev.src <= Len(win)
        /\ ~ev.hasParams => ev.params = DeniedParams
        /\ (ev.origin = "other" \/ ev.type = "other")
              => (ev.hasParams /\ ev.params = DeniedParams) }

(***************************************************************************)
(* Actions                                                                 *)
(***************************************************************************)
Init ==
    /\ host \in Hosts
    /\ att = [ a \in Attempts |-> IdleAttempt ]
    /\ win = << >>
    /\ justSettled = {}
    /\ call = NoCall
    /\ adapter = NoAdapter

\* the calls whose promise settles in this step
Settling ==
    justSettled' = { a \in Attempts : att[a].pc # "done" /\ att'[a].pc = "done" }

\* the orchestrator of provider p runs to its first pending await
Start(at0, p, h, open, available, wins) ==
    LET at == [ at0 EXCEPT !.provider = p, !.transport = Transport(p, h) ]
    IN  IF at.transport = "popup" THEN loginWeb(at, h, open, wins)
        ELSE IF at.transport = "session"
        THEN [ at |-> loginMobile(at, h), win |-> wins ]
        ELSE [ at |-> nativeStart(at, h, available), win |-> wins ]

\* a dispatch whose default is the web flow
fictionTarget_DefaultGoogle(auth) ==
    LET name == toLowerCase(auth)
    IN  IF name \in { GOOGLE, APPLE, FACEBOOK } THEN name ELSE GOOGLE

\* the orchestrator fictionLogin(auth) calls, "" when it calls none
fictionTarget(auth) ==
    LET name == toLowerCase(auth)
    IN  IF name \in { GOOGLE, APPLE, FACEBOOK } THEN name
        ELSE IF name \in { GITHUB, LINKEDIN } THEN GOOGLE
        ELSE ""

\* fictionLogin(auth, options) up to its first pending await
fictionLogin(at0, auth, h, open, available, wins) ==
    LET at == [ at0 EXCEPT !.auth = auth ]
    IN  IF fictionTarget(auth) = ""
        THEN [ at |-> Return(at, handleError(SocialAuthError(ERR_UNKNOWN_PROVIDER,
                                                              "Unknown provider: " \o auth))),
               win |-> wins ]
        ELSE Start(at, fictionTarget(auth), h, open, available, wins)

\* the names fictionLogin is called with
AuthNames == { "GitHub", "Twitter" }

\* googleLogin / appleLogin / facebookLogin is called (calls are numbered in
\* the order they are made) and runs to its first pending await
Login(a, p, open, available) ==
    /\ att[a].pc = "idle"
    /\ IF a = 1 THEN TRUE ELSE att[a - 1].pc # "idle"
    /\ LET r == Start(att[a], p, host, open, available, win)
       IN  /\ att' = [ att EXCEPT ![a] = r.at ]
           /\ win' = r.win
    /\ UNCHANGED host
    /\ Settling
    /\ UNCHANGED << call, adapter >>

\* fictionLogin(auth) is called
FictionLogin(a, auth, open, available) ==
    /\ att[a].pc = "idle"
    /\ IF a = 1 THEN TRUE ELSE att[a - 1].pc # "idle"
    /\ LET r == fictionLogin(att[a], auth, host, open, available, win)
       IN  /\ att' = [ att EXCEPT ![a] = r.at ]
           /\ win' = r.win
    /\ UNCHANGED host
    /\ Settling
    /\ UNCHANGED << call, adapter >>

\* the page receives the message event ev while the call at is pending
Hear(at, ev) ==
    IF /\ at.pc = "polling"
       /\ ~at.heard
       /\ ev.origin = "same" /\ ev.type = "oauth-callback" /\ ev.hasParams
    THEN [ at EXCEPT !.heard = TRUE, !.heardParams = ev.params ]
    ELSE at

\* a message event is dispatched to every registered listener
MessageEvent(ev) ==
    /\ host.window
    /\ \E a \in Attempts : att[a].popup # 0
    /\ att' = [ a \in Attempts |->
                  handleMessage(Hear(att[a], ev), ev) ]
    /\ win' = [ w \in DOMAIN win |->
                  IF \E a \in Attempts : Recognized(att[a], ev) /\ att[a].popup = w
                  THEN Close(win[w]) ELSE win[w] ]
    /\ UNCHANGED host
    /\ Settling
    /\ UNCHANGED << call, adapter >>

\* the interval timer of call a fires
PollTick(a) ==
    /\ att[a].poll = "live"
    /\ LET w == win[att[a].popup]
       IN  /\ att' = [ att EXCEPT ![a] = pollResult(att[a], w) ]
           /\ win' = IF pollCloses(w)
                     THEN [ win EXCEPT ![att[a].popup] = Close(@) ] ELSE win
    /\ UNCHANGED host
    /\ Settling
    /\ UNCHANGED << call, adapter >>

\* the timeout timer of call a fires
Timeout(a) ==
    /\ att[a].timeout = "pending"
    /\ att' = [ att EXCEPT ![a] = timeoutResult(att[a], win[att[a].popup]) ]
    /\ win' = [ win EXCEPT ![att[a].popup] = Close(@) ]
    /\ UNCHANGED host
    /\ Settling
    /\ UNCHANGED << call, adapter >>

\* the user closes popup w
UserClose(w) ==
    /\ w \in DOMAIN win
    /\ ~win[w].closed
    /\ win' = [ win EXCEPT ![w] = Close(@) ]
    /\ UNCHANGED << host, att >>
    /\ Settling
    /\ UNCHANGED << call, adapter >>

\* popup w shows another document
Navigate(w, loc) ==
    /\ w \in DOMAIN win
    /\ ~win[w].closed
    /\ loc # win[w].loc
    /\ win' = [ win EXCEPT ![w].loc = loc ]
    /\ UNCHANGED << host, att >>
    /\ Settling
    /\ UNCHANGED << call, adapter >>

\* openAuthSessionAsync settles
SessionEnd(a, out) ==
    /\ att[a].pc = "session"
    /\ LET at == [ att[a] EXCEPT !.awaited = [ api |-> "session", out |-> out ] ]
       IN  att' = [ att EXCEPT ![a] =
                      IF out.kind = "throws" THEN Caught(at, host, out.error)
                      ELSE Return(at, sessionResult(out)) ]
    /\ UNCHANGED << host, win >>
    /\ Settling
    /\ UNCHANGED << call, adapter >>

\* signInAsync settles
SignIn(a, throws, credential, error) ==
    /\ att[a].pc = "signin"
    /\ LET at == [ att[a] EXCEPT !.awaited =
                      IF throws THEN [ api |-> "signIn", throws |-> TRUE, error |-> error ]
                      ELSE [ api |-> "signIn", throws |-> FALSE, credential |-> credential ] ]
       IN  att' = [ att EXCEPT ![a] =
                      IF throws THEN nativeCatch(at, host, error)
                      ELSE nativeCredential(at, credential) ]
    /\ UNCHANGED << host, win >>
    /\ Settling
    /\ UNCHANGED << call, adapter >>

\* the verification fetch settles
Verify(a, out) ==
    /\ att[a].pc = "verify"
    /\ att' = [ att EXCEPT ![a] =
                  nativeVerified([ att[a] EXCEPT !.awaited = [ api |-> "fetch", out |-> out ] ],
                                 host, out) ]
    /\ UNCHANGED << host, win >>
    /\ Settling
    /\ UNCHANGED << call, adapter >>

Next ==
    \/ \E a \in Attempts, p \in Providers, open \in { "opened", "blocked", "throws" },
          available \in BOOLEAN : Login(a, p, open, available)
    \/ \E a \in Attempts, auth \in AuthNames, open \in { "opened", "blocked", "throws" },
          available \in BOOLEAN : FictionLogin(a, auth, open, available)
    \/ \E ev \in MsgEvents : MessageEvent(ev)
    \/ \E a \in Attempts : PollTick(a)
    \/ \E a \in Attempts : Timeout(a)
    \/ \E w \in 1..MaxAttempts : UserClose(w)
    \/ \E w \in 1..MaxAttempts, loc \in Locs : Navigate(w, loc)
    \/ \E a \in Attempts, out \in SessionOutcomes : SessionEnd(a, out)
    \/ \E a \in Attempts, throws \in BOOLEAN, credential \in Credentials,
          error \in SignInErrors : SignIn(a, throws, credential, error)
    \/ \E a \in Attempts, out \in VerifyOutcomes : Verify(a, out)

Spec == Init /\ [][Next]_vars

\* timers fire: a pending setTimeout callback eventually runs
FairSpec == Spec /\ \A a \in Attempts : WF_vars(Timeout(a))

(***************************************************************************)
(* Direct calls of the exported utility functions                          *)
(***************************************************************************)
\* messages of thrown errors
Messages ==
    { "", "boom", "User CANCELLED the flow", "Dismissed", "The user canceled the sign-in flow",
      "Network request failed", "Failed to FETCH", "connection reset",
      "Invalid token", "Session Expired", "TOKEN",
      "network cancel", "fetch token", "invalid connection", "expired, dismissed",
      "__DEV__ is not defined" }

\* the values handleError is called with
ThrownValues ==
    { SocialAuthError(c, m) : c \in ERROR_CODES, m \in { Undefined, "Unknown provider: x" } }
    \cup { Thrown("Error", m, c) : m \in Messages, c \in { Undefined, ERR_NETWORK } }
    \cup { Thrown("string", m, Undefined) : m \in { "", "cancelled" } }
    \cup { Thrown("object", m, c) : m \in { Undefined, "Network error" },
                                    c \in { Undefined, ERR_NETWORK, ERR_REQUEST_CANCELED } }
    \cup { Thrown("null", Undefined, Undefined), Thrown("undefined", Undefined, Undefined) }

\* handleError(error)
CallHandleError(error) ==
    /\ call' = [ fn |-> "handleError", arg |-> error, out |-> handleError(error) ]
    /\ UNCHANGED << host, att, win, justSettled, adapter >>

\* a parameter mapping; Undefined stands for a key that is absent
Param(k, v) == IF v = Undefined THEN EmptyParams ELSE k :> v

\* the mappings paramsToAuthResult is called with
ParamSets ==
    { Param("action", a) @@ Param("id", i) @@ Param("email", e) @@ Param("name", n)
          @@ Param("photo", ph) @@ Param("error", x) :
        a \in { Undefined, "success", "failed", "SUCCESS" },
        i \in { Undefined, "", "1" },
        e \in { Undefined, "", "e@x.com" },
        n \in { Undefined, "Al" },
        ph \in { Undefined, "p.png" },
        x \in { Undefined, "", "denied" } }

\* paramsToAuthResult(params)
CallParamsToAuthResult(params) ==
    /\ call' = [ fn |-> "paramsToAuthResult", arg |-> params,
                 out |-> paramsToAuthResult(params) ]
    /\ UNCHANGED << host, att, win, justSettled, adapter >>

\* the arguments buildAuthUrl is called with
Backends == { AUTH_BACKEND_URL, "https://x.io/api", "https://x.io/auth?v=2" }

Callbacks ==
    { "", "https://a.io/auth/callback", "app://cb?x=1&y=a+b", "exp://h/--/p%20q#f",
      "a b~'(*)!" }

\* success parameters appended to an authorization URL
SuccessSuffix == "&action=success&id=1&email=e@x.com"

\* parseCallbackUrl(buildAuthUrl(b, p, c) + SuccessSuffix); built records
\* the arguments of buildAuthUrl.  The codec keeps nothing between calls, so
\* a behaviour makes one call of it.
CallParseBuilt(b, p, c) ==
    /\ call = NoCall
    /\ call' = [ fn |-> "parseCallbackUrl",
                 arg |-> buildAuthUrl(b, p, c) \o SuccessSuffix,
                 built |-> [ backendUrl |-> b, provider |-> p, callbackUrl |-> c ],
                 raises |-> parseCallbackUrlRaises(buildAuthUrl(b, p, c) \o SuccessSuffix),
                 out |-> parseCallbackUrl(buildAuthUrl(b, p, c) \o SuccessSuffix) ]
    /\ UNCHANGED << host, att, win, justSettled, adapter >>

\* the other strings parseCallbackUrl is called with
ParseUrls ==
    { "", "https://a.io/auth/callback", "https://a.io/auth/callback?", "a=1&b=2",
           "k=", "=&=", "x=a+b&y=%41", "a=1?b=2?c=3", "%zz", "a=%zz", "?x=%",
           "a=1&b=%zz&c=3", "https://a.io/auth/callback?a=%E0%A4%A&b=2", "a=%C3%A9&b=2",
           "b=%zz&a=1", "a=1&c=3&b=%",
           "https://a.io/auth/callback?action=success&id=7&b=/p?x=1&email=e%40x.io" }

\* parseCallbackUrl(url)
CallParseCallbackUrl(url) ==
    /\ call = NoCall
    /\ call' = [ fn |-> "parseCallbackUrl", arg |-> url, built |-> << >>,
                 raises |-> parseCallbackUrlRaises(url),
                 out |-> parseCallbackUrl(url) ]
    /\ UNCHANGED << host, att, win, justSettled, adapter >>

UnitInit ==
    /\ host = CHOOSE h \in Hosts : h.dev = "undeclared"
    /\ att = [ a \in Attempts |-> IdleAttempt ]
    /\ win = << >>
    /\ justSettled = {}
    /\ call = NoCall
    /\ adapter = NoAdapter

UnitNext ==
    \/ \E error \in ThrownValues : CallHandleError(error)
    \/ \E params \in ParamSets : CallParamsToAuthResult(params)
    \/ \E b \in Backends, p \in PROVIDERS, c \in Callbacks : CallParseBuilt(b, p, c)
    \/ \E url \in ParseUrls : CallParseCallbackUrl(url)

UnitSpec == UnitInit /\ [][UnitNext]_vars

(***************************************************************************)
(* The transport an orchestrator chooses, on every kind of host            *)
(***************************************************************************)
\* every combination of what platform detection reads
AllHosts ==
    { Host(nav, product, expoGlobal, rnOS, ua, TRUE, "true", TRUE, appleAuth, TRUE) :
        nav \in BOOLEAN, product \in { "Gecko", "ReactNative" }, expoGlobal \in BOOLEAN,
        rnOS \in { "ios", "android", "windows", "throws" },
        ua \in { "desktop", "iphone", "android" },
        appleAuth \in { "missing", "rejects", "unavailable", "available" } }

\* the orchestrator of provider p chooses its transport
Dispatch(p) ==
    /\ call' = [ fn |-> "dispatch", arg |-> p, out |-> Transport(p, host) ]
    /\ UNCHANGED << host, att, win, justSettled, adapter >>

\* getPlatformInfo() and isNativeAppleAuthAvailable() are called on the host
Detect ==
    /\ call = NoCall
    /\ call' = [ fn |-> "getPlatformInfo", arg |-> "",
                 out |-> getPlatformInfo(host),
                 raises |-> getPlatformInfoRaises(host),
                 available |-> isNativeAppleAuthAvailable(host),
                 availableRaises |-> isNativeAppleAuthAvailableRaises(host) ]
    /\ UNCHANGED << host, att, win, justSettled, adapter >>

DispatchInit ==
    /\ host \in AllHosts
    /\ att = [ a \in Attempts |-> IdleAttempt ]
    /\ win = << >>
    /\ justSettled = {}
    /\ call = NoCall
    /\ adapter = NoAdapter

DispatchNext ==
    \/ \E p \in Providers : Dispatch(p)
    \/ Detect

DispatchSpec == DispatchInit /\ [][DispatchNext]_vars

(***************************************************************************)
(* Framework adapters: the React hook useSocialLogin, the Vue composable   *)
(* useSocialLogin, the Svelte store createSocialLogin and the Angular      *)
(* service SocialLoginService.  adapter is one instance:                   *)
(*   kind      "react", "vue", "svelte" or "angular"                       *)
(*   provider  the provider the instance was created with ("" for the      *)
(*             service, whose login takes the provider)                    *)
(*   state     loading, error, result and, except in the hook, user        *)
(*   calls     one record per login() call: pc is "idle", "awaiting" (at   *)
(*             await loginFn(options)), "resolved" (the promise of login() *)
(*             resolved to ret) or "rejected"; resetDuring records that    *)
(*             reset() ran while the call was awaiting                     *)
(*   last      the adapter operation that ran last                         *)
(*   afterReset  reset() has run and login() has not been called since     *)
(* The login() call numbered k runs the attempt att[k].                    *)
(***************************************************************************)
Null == "<null>"

NullResult == [ action |-> "null" ]

NullUser == [ null |-> TRUE ]

\* the hook keeps loading, error and result; the others also keep user
HasUser(kind) == kind # "react"

\* useState(false), useState(null), useState(null) / initialState
InitialState(kind) ==
    IF HasUser(kind)
    THEN [ loading |-> FALSE, error |-> Null, result |-> NullResult, user |-> NullUser ]
    ELSE [ loading |-> FALSE, error |-> Null, result |-> NullResult ]

IdleCall == [ pc |-> "idle", provider |-> "", ret |-> NoResult, resetDuring |-> FALSE ]

NewAdapter(kind, provider) ==
    [ kind |-> kind, provider |-> provider, state |-> InitialState(kind),
      calls |-> [ k \in Attempts |-> IdleCall ], last |-> "new",
      afterReset |-> FALSE ]

\* the orchestrator the adapter calls for provider p, "" when it throws
\* 'Unknown provider': the hook switches on the name as given, the others on
\* its lower-cased form
getLoginFunction(kind, p) ==
    LET name == IF kind = "react" THEN p ELSE toLowerCase(p)
    IN  IF name \in { GOOGLE, APPLE, FACEBOOK } THEN name ELSE ""

\* the first assignments of login()
Loading(kind, state) ==
    IF HasUser(kind)
    THEN [ state EXCEPT !.loading = TRUE, !.error = Null, !.result = NullResult,
                        !.user = NullUser ]
    ELSE [ state EXCEPT !.loading = TRUE, !.error = Null, !.result = NullResult ]

\* the assignments of the try block after the await, with the finally block
Fulfilled(kind, state, authResult) ==
    LET message == OrElse(authResult.error, "Authentication failed")
    IN  IF kind = "react"
        THEN [ state EXCEPT !.result = authResult,
                            !.error = IF IsFailure(authResult) THEN message ELSE @,
                            !.loading = FALSE ]
        ELSE IF kind = "vue"
        THEN [ state EXCEPT !.result = authResult,
                            !.user = IF IsSuccess(authResult) THEN authResult.user ELSE @,
                            !.error = IF IsSuccess(authResult) THEN @ ELSE message,
                            !.loading = FALSE ]
        ELSE [ state EXCEPT !.loading = FALSE,
                            !.result = authResult,
                            !.user = IF IsSuccess(authResult) THEN authResult.user
                                     ELSE NullUser,
                            !.error = IF IsFailure(authResult) THEN message ELSE Null ]

\* the result the catch block builds from the exception e
FailedResult(kind, e) ==
    IF kind = "react" THEN handleError(e)
    ELSE Failure(IF e.kind \in { "Error", "SocialAuthError" } THEN e.message
                 ELSE "Unknown error",
                 ERR_AUTH_FAILED)

\* the assignments of the catch block, with the finally block
Failed(kind, state, e) ==
    LET failedResult == FailedResult(kind, e)
    IN  IF kind = "react"
        THEN [ state EXCEPT !.result = failedResult,
                            !.error = OrElse(failedResult.error, "Authentication failed"),
                            !.loading = FALSE ]
        ELSE IF kind = "vue"
        THEN [ state EXCEPT !.error = failedResult.error, !.result = failedResult,
                            !.loading = FALSE ]
        ELSE [ state EXCEPT !.loading = FALSE, !.error = failedResult.error,
                            !.result = failedResult, !.user = NullUser ]

\* what getLoginFunction / the default case throws for the name p
UnknownProvider(kind, p) ==
    IF kind = "react"
    THEN SocialAuthError(ERR_UNKNOWN_PROVIDER, "Unknown provider: " \o p)
    ELSE Thrown("Error", "Unknown provider: " \o p, Undefined)

\* a catch block that throws the exception again
CatchReturn_Rethrows(kind, c, e) == [ c EXCEPT !.pc = "rejected" ]

\* the return of the catch block: the promise of the login() call c resolves
\* to the result built from the exception e
CatchReturn(kind, c, e) == [ c EXCEPT !.pc = "resolved", !.ret = FailedResult(kind, e) ]

\* a reset() that settles the calls in flight as cancelled
resetCalls_Cancels(calls) ==
    [ k \in Attempts |->
        IF calls[k].pc = "awaiting"
        THEN [ calls[k] EXCEPT !.pc = "resolved", !.ret = CancelledResult,
                               !.resetDuring = TRUE ]
        ELSE calls[k] ]

\* reset() and the login() calls: it touches none of them (resetDuring is
\* history)
resetCalls(calls) ==
    [ k \in Attempts |->
        IF calls[k].pc = "awaiting" THEN [ calls[k] EXCEPT !.resetDuring = TRUE ]
        ELSE calls[k] ]

\* login(options) of the hook, composable and store, login(p, options) of
\* the service, up to await loginFn(options) or, for an unknown provider,
\* to the return of the catch block
AdapterLogin(k, p, open, available) ==
    /\ adapter.kind # "none"
    /\ adapter.calls[k].pc = "idle"
    /\ IF k = 1 THEN TRUE ELSE adapter.calls[k - 1].pc # "idle"
    /\ adapter.kind # "angular" => p = adapter.provider
    /\ LET kind   == adapter.kind
           target == getLoginFunction(kind, p)
           state  == Loading(kind, adapter.state)
       IN  IF target = ""
           THEN /\ adapter' = [ adapter EXCEPT
                                  !.state = Failed(kind, state, UnknownProvider(kind, p)),
                                  !.calls[k] = CatchReturn(kind, [ @ EXCEPT !.provider = p ],
                                                           UnknownProvider(kind, p)),
                                  !.last = "login", !.afterReset = FALSE ]
                /\ UNCHANGED << att, win >>
           ELSE LET r == Start(att[k], target, host, open, available, win)
                IN  /\ att' = [ att EXCEPT ![k] = r.at ]
                    /\ win' = r.win
                    /\ adapter' = [ adapter EXCEPT
                                      !.state = state,
                                      !.calls[k] = [ @ EXCEPT !.pc = "awaiting",
                                                              !.provider = p ],
                                      !.last = "login", !.afterReset = FALSE ]
    /\ UNCHANGED << host, call >>
    /\ Settling

\* the continuation of login() after await loginFn(options): the promise of
\* the orchestrator has settled
AdapterResume(k) ==
    /\ adapter.kind # "none"
    /\ adapter.calls[k].pc = "awaiting"
    /\ att[k].pc \in { "done", "rejected" }
    /\ adapter' =
          IF att[k].pc = "done"
          THEN [ adapter EXCEPT
                    !.state = Fulfilled(adapter.kind, adapter.state, att[k].ret),
                    !.calls[k] = [ @ EXCEPT !.pc = "resolved", !.ret = att[k].ret ],
                    !.last = "resume" ]
          ELSE [ adapter EXCEPT
                    !.state = Failed(adapter.kind, adapter.state, att[k].rejection),
                    !.calls[k] = CatchReturn(adapter.kind, @, att[k].rejection),
                    !.last = "resume" ]
    /\ UNCHANGED << host, att, win, call >>
    /\ Settling

\* reset()
AdapterReset ==
    /\ adapter.kind # "none"
    /\ adapter' = [ adapter EXCEPT !.state = InitialState(adapter.kind),
                                   !.calls = resetCalls(adapter.calls),
                                   !.last = "reset", !.afterReset = TRUE ]
    /\ UNCHANGED << host, att, win, call >>
    /\ Settling

\* the hosts the adapters run on: a browser page and an Android application
AdapterHosts ==
    { h \in Hosts : \/ (h.dev = "undeclared" /\ h.window)
                    \/ (h.rnOS = "android" /\ h.product = "ReactNative") }

\* the names the adapters are given
AdapterProviders == { "google", "Apple", "Twitter" }

\* the ends of the embedded session the adapters are run against
AdapterSessionOutcomes ==
    { out \in SessionOutcomes :
        \/ (out.type = "success" /\ Truthy(out.url) /\ Includes(out.url, "id="))
        \/ out.type = "cancel"
        \/ (out.kind = "throws" /\ out.error.kind = "value") }

AdapterInit ==
    /\ host \in AdapterHosts
    /\ att = [ a \in Attempts |-> IdleAttempt ]
    /\ win = << >>
    /\ justSettled = {}
    /\ call = NoCall
    /\ adapter \in { NewAdapter(kind, p) : kind \in { "react", "vue", "svelte" },
                                           p \in AdapterProviders }
                   \cup { NewAdapter("angular", "") }

\* the adapter operations, and the steps of the attempts they started
AdapterNext ==
    \/ \E k \in Attempts, p \in AdapterProviders, open \in { "opened", "blocked", "throws" },
          available \in BOOLEAN : AdapterLogin(k, p, open, available)
    \/ \E k \in Attempts : AdapterResume(k)
    \/ AdapterReset
    \/ \E a \in Attempts : PollTick(a)
    \/ \E a \in Attempts : Timeout(a)
    \/ \E w \in 1..MaxAttempts : UserClose(w)
    \/ \E a \in Attempts, out \in AdapterSessionOutcomes : SessionEnd(a, out)

AdapterSpec == AdapterInit /\ [][AdapterNext]_vars

(***************************************************************************)
(* The callbacks of a popup attempt, one invocation at a time              *)
(***************************************************************************)
\* an attempt of provider p on a browser page, after window.open returned a
\* window and the watchers were registered
Opened(p) ==
    loginWeb([ IdleAttempt EXCEPT !.provider = p, !.transport = "popup" ],
             CHOOSE h \in Hosts : h.dev = "undeclared", "opened", << >>).at

\* the message events the page may receive from the popup of the attempt
WatcherEvents ==
    { ev \in [ src : { 1 }, origin : { "same", "other" },
               type : { "oauth-callback", "other" }, hasParams : BOOLEAN,
               params : MsgParams ] :
        ~ev.hasParams => ev.params = DeniedParams }

\* the states of an attempt in which its interval timer is still running:
\* just opened, after a recognized message without params, and after a
\* message that settled it
WatchedAttempts ==
    { Opened(p) : p \in Providers }
        \cup { handleMessage(Opened(p), ev) : p \in Providers, ev \in WatcherEvents }

\* documents a popup may show besides Locs: a same-origin page without a
\* marker, and one whose query holds a marker inside another word
PlainLocs ==
    { [ readable |-> TRUE, href |-> "https://a.io/auth/callback" ],
      [ readable |-> TRUE, href |-> "https://a.io/auth/callback?transaction=successful&id=7" ] }

\* what the popup of an attempt may be when a callback runs; a closed window
\* keeps the document it showed last
PopupStates(name) ==
    [ name : { name }, closed : BOOLEAN, loc : Locs \cup PlainLocs ]

\* the popup states attempt at can meet: the handler of a recognized message
\* has closed the popup
PopupsOf(at) ==
    { w \in PopupStates(WindowName(at.provider)) : at.msgSeen => w.closed }

\* one run of the interval callback of attempt at, its popup being w
CallPollInterval(at, w) ==
    /\ call = NoCall
    /\ at.poll = "live"
    /\ call' = [ fn |-> "pollInterval", arg |-> [ at |-> at, w |-> w ],
                 out |-> [ at |-> pollResult(at, w),
                           w |-> IF pollCloses(w) THEN Close(w) ELSE w ] ]
    /\ UNCHANGED << host, att, win, justSettled, adapter >>

\* the message event ev is dispatched while attempt at holds popup w
CallHandleMessage(at, w, ev) ==
    /\ call = NoCall
    /\ call' = [ fn |-> "handleMessage", arg |-> [ at |-> at, w |-> w, ev |-> ev ],
                 out |-> [ at |-> handleMessage(Hear(at, ev), ev),
                           w |-> IF Recognized(at, ev) THEN Close(w) ELSE w ] ]
    /\ UNCHANGED << host, att, win, justSettled, adapter >>

WatcherInit ==
    /\ host = CHOOSE h \in Hosts : h.dev = "undeclared"
    /\ att = [ a \in Attempts |-> IdleAttempt ]
    /\ win = << >>
    /\ justSettled = {}
    /\ call = NoCall
    /\ adapter = NoAdapter

WatcherNext ==
    \/ \E at \in WatchedAttempts :
           \E w \in PopupsOf(at) : CallPollInterval(at, w)
    \/ \E at \in WatchedAttempts, ev \in WatcherEvents :
           \E w \in PopupsOf(at) : CallHandleMessage(at, w, ev)

WatcherSpec == WatcherInit /\ [][WatcherNext]_vars

(***************************************************************************)
(* Properties                                                              *)
(***************************************************************************)
\* C1: in the popup transport the result delivered to the caller is the one
\* of the first path that settles: once the promise of a popup attempt is
\* settled, no later message event, poll tick or timeout changes it, and an
\* attempt the timeout settled keeps Failure 'Authentication timed out'.
C1_FirstSettlementWins ==
    /\ [][ \A a \in Attempts :
             (att[a].transport = "popup" /\ att[a].pc = "done")
                 => (att'[a].pc = "done" /\ att'[a].ret = att[a].ret) ]_vars
    /\ [](\A a \in Attempts :
             att[a].settledBy = "timeout"
                 => att[a].ret = Failure("Authentication timed out", ERR_AUTH_FAILED))

\* a timeout ran after a message had settled the attempt, and the result is
\* still the message's
C1_Witness ==
    \E a \in Attempts :
        /\ att[a].settledBy = "message"
        /\ att[a].timeout = "fired"
        /\ att[a].ret = paramsToAuthResult(DeniedParams)

\* C2: googleLogin, facebookLogin and appleLogin never reject: whatever a
\* transport throws, the promise resolves to the Failure handleError builds
\* for that exception.
C2_NeverRejects ==
    \A a \in Attempts :
        /\ att[a].pc # "rejected"
        /\ att[a].caught # NoThrown
              => (att[a].pc = "done" /\ att[a].ret = handleError(att[a].caught))

\* C3: under fair timers every popup attempt that is polling eventually
\* settles.
C3_EventuallySettles ==
    \A a \in Attempts : (att[a].pc = "polling") ~> (att[a].pc = "done")

\* the timeout settled an attempt that saw no message and whose popup was
\* still open
C3_Witness ==
    \E a \in Attempts :
        /\ att[a].settledBy = "timeout"
        /\ att[a].timeoutSaw = "open"
        /\ ~att[a].msgSeen

\* C4: in the state right after a popup attempt settles, its poll interval
\* is cleared, its timeout is cleared, its message listener is removed and
\* its popup is closed.
C4_ReleasedAtSettlement ==
    \A a \in justSettled :
        att[a].transport = "popup"
            => /\ att[a].poll # "live"
               /\ att[a].timeout # "pending"
               /\ att[a].listener # "live"
               /\ att[a].popup # 0 => win[att[a].popup].closed

\* C5: a blocked popup settles the attempt at once with Failure
\* ERR_AUTH_FAILED 'Popup was blocked...', and no poll interval, timeout or
\* message listener is ever registered for it.
C5_BlockedRegistersNothing ==
    \A a \in Attempts :
        att[a].open = "blocked"
            => /\ att[a].pc = "done"
               /\ att[a].ret = Failure("Popup was blocked. Please allow popups for this site.",
                                       "ERR_AUTH_FAILED")
               /\ att[a].poll = "none"
               /\ att[a].timeout = "none"
               /\ att[a].listener = "none"
               /\ att[a].popup = 0

\* a google attempt was blocked while another attempt is polling
C5_Witness ==
    \E a, b \in Attempts :
        /\ att[a].open = "blocked"
        /\ att[a].provider = GOOGLE
        /\ att[b].pc = "polling"

\* C6: a poll tick that finds the popup closed, before any marker URL was
\* read and before any recognized message was received, settles the attempt
\* with Failure ERR_REQUEST_CANCELED 'Sign-in window was closed'.
C6_ClosedMeansCancelled ==
    \A a \in Attempts :
        (att[a].pollFoundClosed /\ ~att[a].msgSeen /\ att[a].settledBy # "pollMarker")
            => /\ att[a].pc = "done"
               /\ att[a].ret = Failure("Sign-in window was closed", "ERR_REQUEST_CANCELED")

\* a poll tick found the popup closed after the popup had shown the provider
C6_Witness ==
    \E a \in Attempts :
        /\ att[a].pollFoundClosed
        /\ ~att[a].msgSeen
        /\ att[a].settledBy = "pollClosed"

\* C7: when the timeout runs on an attempt that received no recognized
\* message, read no marker URL and whose popup is still open, the result is
\* Failure ERR_AUTH_FAILED 'Authentication timed out', the poll interval and
\* the message listener are cancelled, and the attempt has called close() on
\* its popup exactly once.
C7_TimeoutTearsDown ==
    \A a \in Attempts :
        ( /\ att[a].timeout = "fired"
          /\ att[a].timeoutSaw = "open"
          /\ ~att[a].msgSeen
          /\ att[a].settledBy # "pollMarker" )
            => /\ att[a].ret = Failure("Authentication timed out", "ERR_AUTH_FAILED")
               /\ att[a].poll = "off"
               /\ att[a].listener # "live"
               /\ att[a].closeCalls = 1
               /\ win[att[a].popup].closed

\* the timeout ran on an open popup of an attempt that has a message watcher
C7_Witness ==
    \E a \in Attempts :
        /\ att[a].timeout = "fired"
        /\ att[a].timeoutSaw = "open"
        /\ ~att[a].msgSeen
        /\ att[a].settledBy = "timeout"
        /\ HasMessageWatcher(att[a].provider)

\* C8: concurrent attempts are independent: an attempt is settled by a
\* message only if the message comes from its own popup.
C8_MessageFromOwnPopup ==
    \A a \in Attempts :
        att[a].settledBy = "message" => att[a].bySrc = att[a].popup

\* C9 (as stated): every Success has a non-empty user.id and user.email.
C9_SuccessNonEmpty ==
    \A a \in Attempts :
        (att[a].pc = "done" /\ IsSuccess(att[a].ret))
            => (att[a].ret.user.id # "" /\ att[a].ret.user.email # "")

\* C9 (amended): every Success has a non-empty user.id; every Success of the
\* popup and embedded-session transports has a non-empty user.email, while a
\* Success of the native credential transport may carry an empty one.
C9_SuccessHasIdentity ==
    \A a \in Attempts :
        (att[a].pc = "done" /\ IsSuccess(att[a].ret))
            => /\ att[a].ret.user.id # ""
               /\ att[a].ret.id = att[a].ret.user.id
               /\ att[a].transport # "native" => att[a].ret.user.email # ""

\* an embedded session returned a Success
C9_Witness ==
    \E a \in Attempts :
        /\ att[a].transport = "session"
        /\ att[a].pc = "done"
        /\ IsSuccess(att[a].ret)

\* C10: every Failure has a non-empty error string.
C10_FailureHasMessage ==
    \A a \in Attempts :
        (att[a].pc = "done" /\ IsFailure(att[a].ret))
            => (att[a].ret.error # "" /\ att[a].ret.error # Undefined)

\* C12: handleError is total: for a SocialAuthError, an Error, a string, an
\* object, null and undefined it returns a Failure whose errorCode is a
\* member of ERROR_CODES, and a value that is not an Error gives
\* ERR_AUTH_FAILED with the generic message.
C12_ClassifierTotal ==
    call.fn = "handleError"
        => /\ call.out.action = "failed"
           /\ call.out.errorCode \in
                  { "ERR_REQUEST_CANCELED", "ERR_INVALID_TOKEN", "ERR_NETWORK",
                    "ERR_APPLE_NOT_AVAILABLE", "ERR_UNKNOWN_PROVIDER", "ERR_AUTH_FAILED" }
           /\ call.arg.kind \notin { "SocialAuthError", "Error" }
                 => call.out = [ action |-> "failed",
                                 error |-> "An unexpected error occurred",
                                 errorCode |-> "ERR_AUTH_FAILED" ]

\* handleError was called with an object that has an errorCode property
C12_Witness ==
    /\ call.fn = "handleError"
    /\ call.arg.kind = "object"
    /\ call.arg.code = "ERR_NETWORK"

\* C13: for an Error that is no SocialAuthError, handleError goes by the
\* lower-cased message in fixed priority: cancel/cancelled/dismissed gives
\* ERR_REQUEST_CANCELED, else network/fetch/connection gives ERR_NETWORK,
\* else token/invalid/expired gives ERR_INVALID_TOKEN, else ERR_AUTH_FAILED
\* with the message unchanged as error.
C13_MessagePriority ==
    (call.fn = "handleError" /\ call.arg.kind = "Error")
        => LET m  == toLowerCase(call.arg.message)
               g1 == \E w \in { "cancel", "cancelled", "dismissed" } : Includes(m, w)
               g2 == \E w \in { "network", "fetch", "connection" } : Includes(m, w)
               g3 == \E w \in { "token", "invalid", "expired" } : Includes(m, w)
           IN  /\ call.out.action = "failed"
               /\ call.out.errorCode =
                      IF g1 THEN "ERR_REQUEST_CANCELED"
                      ELSE IF g2 THEN "ERR_NETWORK"
                      ELSE IF g3 THEN "ERR_INVALID_TOKEN"
                      ELSE "ERR_AUTH_FAILED"
               /\ ~(g1 \/ g2 \/ g3) => call.out.error = call.arg.message

\* a message of the first and the second group got the code of the first
C13_Witness ==
    /\ call.fn = "handleError"
    /\ call.arg = Thrown("Error", "network cancel", Undefined)
    /\ call.out.errorCode = "ERR_REQUEST_CANCELED"

\* C14: handleError returns the errorCode a value already carries: the code
\* of a SocialAuthError, and the errorCode property of a plain object.
C14_KnownCodePassesThrough ==
    ( /\ call.fn = "handleError"
      /\ call.arg.kind \in { "SocialAuthError", "object" }
      /\ call.arg.code \in ERROR_CODES )
        => call.out.errorCode = call.arg.code

\* C15: paramsToAuthResult returns Success exactly when action is 'success'
\* and id and email are present and non-empty, with user {id, email, name or
\* '', photo or ''}; for every other mapping it returns Failure with error =
\* params.error when that is present and non-empty, else 'Authentication
\* failed', and no errorCode.
C15_Normalizer ==
    call.fn = "paramsToAuthResult"
        => LET p == call.arg
               has(k) == k \in DOMAIN p /\ p[k] # ""
               or(k, d) == IF has(k) THEN p[k] ELSE d
           IN  IF "action" \in DOMAIN p /\ p["action"] = "success" /\ has("id") /\ has("email")
               THEN call.out =
                        [ action |-> "success",
                          user |-> [ id |-> p["id"], email |-> p["email"],
                                     name |-> or("name", ""), photo |-> or("photo", "") ],
                          id |-> p["id"], email |-> p["email"],
                          name |-> or("name", ""), photo |-> or("photo", "") ]
               ELSE /\ call.out.action = "failed"
                    /\ call.out.error = or("error", "Authentication failed")
                    /\ call.out.errorCode = Undefined

\* a success-marked mapping with an id and no email was normalized
C15_Witness ==
    /\ call.fn = "paramsToAuthResult"
    /\ call.arg = ("action" :> "success") @@ ("id" :> "1")
    /\ call.out.action = "failed"

\* C16: on every host and for every provider the transport chosen is the
\* popup when isWeb and not isExpo; otherwise the native credential when the
\* provider is apple, supportsNativeAppleAuth is true and the runtime probe
\* says available; otherwise the embedded session.  The native credential
\* is never chosen for google or facebook, nor without
\* supportsNativeAppleAuth.
C16_Dispatch ==
    call.fn = "dispatch"
        => LET platform == getPlatformInfo(host)
               probe    == host.appleAuth = "available"
           IN  /\ call.out =
                      IF platform.isWeb /\ ~platform.isExpo THEN "popup"
                      ELSE IF call.arg = "apple" /\ platform.supportsNativeAppleAuth /\ probe
                      THEN "native"
                      ELSE "session"
               /\ call.out = "native"
                     => (call.arg = "apple" /\ platform.supportsNativeAppleAuth)

\* appleLogin chose the native credential
C16_Witness ==
    /\ call.fn = "dispatch"
    /\ call.arg = "apple"
    /\ call.out = "native"

\* C11 (as stated): every Failure a login call returns has an errorCode
\* that is a member of ERROR_CODES.
C11_FailureHasCode ==
    \A a \in Attempts :
        (att[a].pc = "done" /\ IsFailure(att[a].ret))
            => att[a].ret.errorCode \in ERROR_CODES

\* C11 (amended): a Failure a login call returns either has an errorCode
\* that is a member of ERROR_CODES, or has none and was built by
\* paramsToAuthResult from the parameters of a message, of a popup URL or
\* of a session's return URL.
C11_FailureCodeOrParams ==
    \A a \in Attempts :
        (att[a].pc = "done" /\ IsFailure(att[a].ret))
            => \/ att[a].ret.errorCode \in
                      { "ERR_REQUEST_CANCELED", "ERR_INVALID_TOKEN", "ERR_NETWORK",
                        "ERR_APPLE_NOT_AVAILABLE", "ERR_UNKNOWN_PROVIDER", "ERR_AUTH_FAILED" }
               \/ /\ att[a].ret.errorCode = Undefined
                  /\ \/ att[a].settledBy \in { "message", "pollMarker" }
                     \/ /\ att[a].awaited.api = "session"
                        /\ att[a].awaited.out.type = "success"
                        /\ att[a].awaited.out.url \notin { Undefined, "" }

\* a popup URL carrying action=failed gave a Failure without errorCode
C11_Witness ==
    \E a \in Attempts :
        /\ att[a].settledBy = "pollMarker"
        /\ IsFailure(att[a].ret)
        /\ att[a].ret.errorCode = Undefined

\* C17: in the native credential transport, once a credential was obtained
\* the call resolves to Success whatever the verification does: after an OK
\* response each of id, email, name, photo is the backend's when non-empty
\* and the local one otherwise; after a throwing call, a non-OK status or
\* unreadable JSON, and without an identity token, it is the Success of the
\* local fields.
C17_VerificationNeverFails ==
    \A a \in Attempts :
        att[a].local # NoLocal
            => /\ att[a].pc \in { "verify", "done" }
               /\ att[a].pc = "done"
                     => LET l == att[a].local
                            v == att[a].awaited
                            d == IF v.api = "fetch" /\ v.out.kind = "ok"
                                 THEN v.out.data ELSE NoData
                            pick(x, y) == IF x \notin { Undefined, "" } THEN x ELSE y
                        IN  att[a].ret =
                                [ action |-> "success",
                                  user |-> [ id |-> pick(d.id, l.id),
                                             email |-> pick(d.email, l.email),
                                             name |-> pick(d.name, l.name),
                                             photo |-> pick(d.photo, "") ],
                                  id |-> pick(d.id, l.id), email |-> pick(d.email, l.email),
                                  name |-> pick(d.name, l.name), photo |-> pick(d.photo, "") ]

\* the verification call threw and the call returned the local Success
C17_Witness ==
    \E a \in Attempts :
        /\ att[a].awaited = [ api |-> "fetch", out |-> [ kind |-> "throws", data |-> NoData ] ]
        /\ att[a].pc = "done"
        /\ att[a].local.email = "e@x.io"

\* C18: a sign-in prompt the user cancelled (error code ERR_REQUEST_CANCELED
\* or ERR_CANCELED) makes appleLogin resolve to a Failure with errorCode
\* ERR_REQUEST_CANCELED; every other error of signInAsync is classified by
\* handleError.
C18_NativeCancel ==
    \A a \in Attempts :
        (att[a].awaited.api = "signIn" /\ att[a].awaited.throws)
            => LET error == att[a].awaited.error
               IN  /\ att[a].pc = "done"
                   /\ IF error.code \in { "ERR_REQUEST_CANCELED", "ERR_CANCELED" }
                      THEN /\ att[a].ret.action = "failed"
                           /\ att[a].ret.errorCode = "ERR_REQUEST_CANCELED"
                      ELSE att[a].ret = handleError(error)

\* signInAsync failed with an error that is no cancellation
C18_Witness ==
    \E a \in Attempts :
        /\ att[a].awaited.api = "signIn"
        /\ att[a].awaited.throws
        /\ att[a].awaited.error.code = "ERR_INVALID_RESPONSE"
        /\ att[a].ret.errorCode = "ERR_AUTH_FAILED"

\* C19: the result of the embedded session decides the outcome: type
\* 'success' with a return URL gives paramsToAuthResult(parseCallbackUrl(url));
\* type 'cancel' or 'dismiss' gives a Failure with ERR_REQUEST_CANCELED;
\* every other result, 'success' without a URL included, gives Failure
\* ERR_AUTH_FAILED 'Authentication failed'.
C19_SessionOutcome ==
    \A a \in Attempts :
        (att[a].awaited.api = "session" /\ att[a].awaited.out.kind = "result")
            => LET r == att[a].awaited.out
               IN  /\ att[a].pc = "done"
                   /\ IF r.type = "success" /\ r.url \notin { Undefined, "" }
                      THEN att[a].ret = paramsToAuthResult(parseCallbackUrl(r.url))
                      ELSE IF r.type \in { "cancel", "dismiss" }
                      THEN /\ att[a].ret.action = "failed"
                           /\ att[a].ret.errorCode = "ERR_REQUEST_CANCELED"
                      ELSE att[a].ret = [ action |-> "failed",
                                          error |-> "Authentication failed",
                                          errorCode |-> "ERR_AUTH_FAILED" ]

\* a session ended with type 'dismiss'
C19_Witness ==
    \E a \in Attempts :
        /\ att[a].awaited.api = "session"
        /\ att[a].awaited.out.kind = "result"
        /\ att[a].awaited.out.type = "dismiss"
        /\ att[a].pc = "done"

\* C20: fictionLogin with a name that, lower-cased, is none of the provider
\* names resolves to a Failure with errorCode ERR_UNKNOWN_PROVIDER, and
\* starts no transport.
C20_UnknownProvider ==
    \A a \in Attempts :
        ( /\ att[a].auth # Undefined
          /\ toLowerCase(att[a].auth) \notin
                 { "google", "apple", "facebook", "github", "linkedin" } )
            => /\ att[a].pc = "done"
               /\ att[a].ret.action = "failed"
               /\ att[a].ret.errorCode = "ERR_UNKNOWN_PROVIDER"
               /\ att[a].transport = "none"
               /\ att[a].popup = 0
               /\ att[a].poll = "none"
               /\ att[a].timeout = "none"
               /\ att[a].listener = "none"
               /\ att[a].awaited = NoAwait

\* fictionLogin('Twitter') returned while another call is in flight
C20_Witness ==
    \E a, b \in Attempts :
        /\ att[a].auth = "Twitter"
        /\ att[a].pc = "done"
        /\ att[b].pc \in { "polling", "session", "signin" }

\* C21: fictionLogin(name) sends every name of PROVIDERS, in any letter
\* case, to the orchestrator of that same provider: the authorization URL
\* the call opens carries auth equal to the lower-cased name.
C21_SameProvider ==
    \A a \in Attempts :
        (/\ att[a].auth # Undefined
         /\ toLowerCase(att[a].auth) \in PROVIDERS
         /\ att[a].authUrl # Undefined)
            => Get(parseCallbackUrl(att[a].authUrl), "auth") = toLowerCase(att[a].auth)

\* C22: round trip of the codec: for every backend b, provider p and
\* callback c, parseCallbackUrl(buildAuthUrl(b, p, c) +
\* '&action=success&id=1&email=e@x.com') contains backto = c, auth = p,
\* action = success, id = 1 and email = e@x.com.
C22_RoundTrip ==
    (call.fn = "parseCallbackUrl" /\ call.built # << >>)
        => /\ Get(call.out, "backto") = call.built.callbackUrl
           /\ Get(call.out, "auth") = call.built.provider
           /\ Get(call.out, "action") = "success"
           /\ Get(call.out, "id") = "1"
           /\ Get(call.out, "email") = "e@x.com"

\* C22 (amended): the round trip holds for every backend b that contains no
\* '?', every provider p of PROVIDERS and every callback c.
C22_RoundTripPlainBackend ==
    (/\ call.fn = "parseCallbackUrl"
     /\ call.built # << >>
     /\ ~Includes(call.built.backendUrl, "?"))
        => /\ Get(call.out, "backto") = call.built.callbackUrl
           /\ Get(call.out, "auth") = call.built.provider
           /\ Get(call.out, "action") = "success"
           /\ Get(call.out, "id") = "1"
           /\ Get(call.out, "email") = "e@x.com"

\* a URL built from a callback that holds '?', '&', '=' and '+' was parsed
\* and the callback came back
C22_Witness ==
    /\ call.fn = "parseCallbackUrl"
    /\ call.built # << >>
    /\ call.arg = "https://x.io/api?backto=app%3A%2F%2Fcb%3Fx%3D1%26y%3Da%2Bb&auth=apple"
                      \o "&action=success&id=1&email=e@x.com"
    /\ call.built.callbackUrl = "app://cb?x=1&y=a+b"
    /\ Get(call.out, "backto") = "app://cb?x=1&y=a+b"
    /\ Get(call.out, "auth") = "apple"

\* C23: in parseCallbackUrl a key=value pair whose percent-encoding is
\* malformed does not stop the parsing of the pairs that follow it: every
\* well-formed pair of the query, before or after the malformed one, is in
\* the returned mapping.
C23_WellFormedPairsKept ==
    call.fn = "parseCallbackUrl" =>
        LET q == QueryString(call.arg)
        IN  \A i \in 1..Len(q) :
                LET e     == KeyRunEnd(q, i)
                    vEnd  == IndexFrom(q, "&", e + 1)
                    value == decodeURIComponent(PlusToSpace(SubSeq(q, e + 1, vEnd - 1)))
                IN  (/\ (i = 1 \/ Char(q, i - 1) = "&")
                     /\ MatchesAt(q, i)
                     /\ value.ok)
                        => Get(call.out, SubSeq(q, i, e - 1)) = value.val

\* C24: parseCallbackUrl raises for no input string: it returns a mapping,
\* the empty one when nothing could be parsed, also for the empty string,
\* for a URL that ends in '?' and for a query with malformed
\* percent-encoding.
C24_NeverRaises ==
    call.fn = "parseCallbackUrl" =>
        /\ ~call.raises
        /\ DOMAIN call.out \subseteq { "backto", "auth", "action", "id", "email",
                                       "a", "b", "c", "k", "v", "x", "y" }
        /\ call.arg \in { "", "https://a.io/auth/callback", "https://a.io/auth/callback?",
                          "=&=", "%zz", "a=%zz", "?x=%", "b=%zz&a=1" }
               => call.out = EmptyParams

\* a query whose second pair is malformed was parsed: the call returned the
\* pair read before it
C24_Witness ==
    /\ call.fn = "parseCallbackUrl"
    /\ call.arg = "a=1&b=%zz&c=3"
    /\ TryRaises(call.arg)
    /\ ~call.raises
    /\ call.out = ("a" :> "1")

\* C25: when a host dependency the chosen transport requires is not
\* installed (expo-web-browser or expo-linking for the embedded session),
\* the orchestrator resolves to a Failure whose errorCode is
\* ERR_MISSING_DEPS.
C25_MissingDependency ==
    \A a \in Attempts :
        (att[a].transport = "session" /\ ~host.webBrowser /\ att[a].pc = "done")
            => (att[a].ret.action = "failed" /\ att[a].ret.errorCode = "ERR_MISSING_DEPS")

\* C26: in every framework adapter, loading is true in every state in which
\* at least one login() call on the instance has started and not yet
\* resolved, also when two login() calls overlap or reset() is called
\* while a login is in flight.
C26_LoadingWhileInFlight ==
    adapter.kind # "none" =>
        ((\E k \in Attempts : adapter.calls[k].pc = "awaiting") => adapter.state.loading)

\* C27: reset() sets the state of the adapter to its initial idle shape
\* (loading false, error null, result null and, where the adapter keeps
\* one, user null) and does not affect an attempt in flight: the step
\* changes no attempt, no window and no pending login() promise, and a
\* login() whose attempt resolved resolves with that attempt's AuthResult.
C27_ResetIsLocal ==
    /\ [](adapter.last = "reset" =>
             adapter.state =
                 IF adapter.kind = "react"
                 THEN [ loading |-> FALSE, error |-> "<null>", result |-> [ action |-> "null" ] ]
                 ELSE [ loading |-> FALSE, error |-> "<null>", result |-> [ action |-> "null" ],
                        user |-> [ null |-> TRUE ] ])
    /\ [][ (adapter' # adapter /\ adapter'.last = "reset")
              => /\ att' = att
                 /\ win' = win
                 /\ \A k \in Attempts :
                        /\ adapter'.calls[k].pc = adapter.calls[k].pc
                        /\ adapter'.calls[k].ret = adapter.calls[k].ret ]_vars
    /\ [](\A k \in Attempts :
             (adapter.calls[k].pc = "resolved" /\ att[k].pc = "done")
                 => adapter.calls[k].ret = att[k].ret)

\* reset() ran while a login() was awaiting its attempt, and the login()
\* then resolved with the Success of that attempt
C27_Witness ==
    /\ adapter.kind = "svelte"
    /\ \E k \in Attempts :
          /\ adapter.calls[k].pc = "resolved"
          /\ adapter.calls[k].resetDuring
          /\ att[k].pc = "done"
          /\ att[k].ret.action = "success"
          /\ adapter.calls[k].ret = att[k].ret

\* C28: in the popup transport of google, facebook and apple, a same-origin
\* message event of type 'oauth-callback' received while the attempt is
\* polling closes the popup and settles the attempt with paramsToAuthResult
\* of the params of the message.
C28_MessageSettles ==
    \A a \in Attempts :
        att[a].heard
            => /\ att[a].pc = "done"
               /\ att[a].ret = paramsToAuthResult(att[a].heardParams)
               /\ win[att[a].popup].closed

\* C29: the two watchers of a popup attempt are cancelled together when
\* either settles it: once the message watcher has settled the attempt the
\* poll interval is cleared (its callback does not run again), and once the
\* poll watcher has settled it the message listener is removed.
C29_WatchersCancelledTogether ==
    \A a \in Attempts :
        /\ att[a].settledBy = "message" => att[a].poll # "live"
        /\ att[a].settledBy \in { "pollClosed", "pollMarker" } => att[a].listener # "live"

\* C30: a popup is held by the attempt that opened it alone until that
\* attempt settles: two attempts that are pending at the same time, two
\* calls of the same provider included, never hold the same popup.
C30_PopupOwnedByOneAttempt ==
    \A a, b \in Attempts :
        (a # b /\ att[a].pc = "polling" /\ att[b].pc = "polling")
            => att[a].popup # att[b].popup

\* C31: a poll tick on which reading the address of the open popup throws
\* (the document is cross-origin) changes nothing: the attempt is as it was,
\* unsettled if it was unsettled, its interval, timeout and listener as they
\* were, the popup still open, and the interval still running for the next
\* tick.
C31_CrossOriginTickChangesNothing ==
    (call.fn = "pollInterval" /\ ~call.arg.w.closed /\ ~call.arg.w.loc.readable)
        => /\ call.out.at = call.arg.at
           /\ call.out.at.poll = "live"
           /\ call.out.at.timeout = call.arg.at.timeout
           /\ call.out.at.listener = call.arg.at.listener
           /\ call.out.w = call.arg.w
           /\ ~call.out.w.closed

\* a tick found the popup of a pending google attempt on the provider's page
C31_Witness ==
    /\ call.fn = "pollInterval"
    /\ call.arg.w = [ NewWindow("googleAuth") EXCEPT !.loc = LocProvider ]
    /\ call.arg.at.pc = "polling" /\ call.arg.at.listener = "live"
    /\ call.arg.at.timeout = "pending"
    /\ call.out.at.pc = "polling" /\ call.out.at.poll = "live"

\* C32: a poll tick settles a pending attempt from the popup's address
\* exactly when the popup is open, the address can be read and it contains
\* 'action=success' or 'action=failed'; the tick then closes the popup and
\* the attempt is settled with paramsToAuthResult(parseCallbackUrl(address)).
\* A tick that reads an address without a marker changes nothing.
C32_PollSettlesFromMarkedAddress ==
    (call.fn = "pollInterval" /\ call.arg.at.pc = "polling")
        => LET w == call.arg.w
               marked == \/ Includes(w.loc.href, "action=success")
                         \/ Includes(w.loc.href, "action=failed")
           IN  /\ call.out.at.settledBy = "pollMarker"
                     <=> (~w.closed /\ w.loc.readable /\ marked)
               /\ call.out.at.settledBy = "pollMarker"
                     => /\ call.out.at.pc = "done"
                        /\ call.out.at.ret = paramsToAuthResult(parseCallbackUrl(w.loc.href))
                        /\ call.out.at.closeCalls = call.arg.at.closeCalls + 1
                        /\ call.out.w.closed
               /\ (~w.closed /\ w.loc.readable /\ ~marked)
                     => (call.out.at = call.arg.at /\ call.out.w = w)

\* a tick read the success address of an open popup and settled the attempt
\* with the user it names
C32_Witness ==
    /\ call.fn = "pollInterval" /\ call.arg.at.pc = "polling"
    /\ ~call.arg.w.closed
    /\ Includes(call.arg.w.loc.href, "action=success")
    /\ call.out.at.settledBy = "pollMarker"
    /\ call.out.at.ret.action = "success" /\ call.out.at.ret.email = "e@x.io"
    /\ call.out.w.closed

\* C33: parseCallbackUrl returns every key=value pair of the text after the
\* first '?' of its input (of the whole input when it has no '?'), the pairs
\* that stand after a second '?' included: when no pair of the part the
\* function reads is malformed, each pair that starts the text or follows
\* '&' or '?' and is the last one with its key is in the mapping with its
\* decoded value.
C33_PairsAfterSecondMark ==
    (call.fn = "parseCallbackUrl" /\ ~TryRaises(call.arg)) =>
        LET url  == call.arg
            q    == IF Includes(url, "?")
                    THEN SubSeq(url, IndexFrom(url, "?", 1) + 1, Len(url)) ELSE url
            PairAt(i) == (i = 1 \/ Char(q, i - 1) \in { "&", "?" }) /\ MatchesAt(q, i)
            Key(i)    == SubSeq(q, i, KeyRunEnd(q, i) - 1)
        IN  \A i \in 1..Len(q) :
                LET e     == KeyRunEnd(q, i)
                    amp   == IndexFrom(q, "&", e + 1)
                    mark  == IndexFrom(q, "?", e + 1)
                    vEnd  == IF amp < mark THEN amp ELSE mark
                    value == decodeURIComponent(PlusToSpace(SubSeq(q, e + 1, vEnd - 1)))
                IN  (/\ PairAt(i)
                     /\ value.ok
                     /\ \A j \in (i + 1)..Len(q) : PairAt(j) => Key(j) # Key(i))
                        => (Key(i) \in DOMAIN call.out /\ call.out[Key(i)] = value.val)

\* C34: a same-origin 'oauth-callback' message without params, received by
\* the listener of a pending attempt, settles the attempt in that step with
\* a Failure that the message watcher produced.
C34_ParamslessMessageIsFailure ==
    (/\ call.fn = "handleMessage"
     /\ call.arg.at.pc = "polling" /\ call.arg.at.listener = "live"
     /\ call.arg.ev.origin = "same" /\ call.arg.ev.type = "oauth-callback"
     /\ ~call.arg.ev.hasParams)
        => /\ call.out.at.pc = "done"
           /\ call.out.at.settledBy = "message"
           /\ call.out.at.ret.action = "failed"

\* C35: getPlatformInfo raises on no host, and on a host whose react-native
\* probe throws it reports web: isWeb true, isIOS, isAndroid and
\* supportsNativeAppleAuth false. isNativeAppleAuthAvailable never rejects and
\* answers false when the probe of the credential module throws. In every
\* PlatformInfo, supportsNativeAppleAuth implies isIOS, isExpo and not isWeb.
C35_ProbesSwallowExceptions ==
    call.fn = "getPlatformInfo" =>
        /\ ~call.raises /\ ~call.availableRaises
        /\ (host.navigator /\ host.product = "ReactNative" /\ host.rnOS = "throws")
              => /\ call.out.isWeb
                 /\ ~call.out.isIOS /\ ~call.out.isAndroid
                 /\ ~call.out.supportsNativeAppleAuth
                 /\ ~call.available
        /\ host.appleAuth \in { "missing", "rejects" } => ~call.available
        /\ call.out.supportsNativeAppleAuth
              => (call.out.isIOS /\ call.out.isExpo /\ ~call.out.isWeb)

\* the probes ran on a React Native host whose platform module cannot be
\* loaded and the answer was web
C35_Witness ==
    /\ call.fn = "getPlatformInfo"
    /\ host.navigator /\ host.product = "ReactNative" /\ host.rnOS = "throws"
    /\ call.out.isWeb /\ call.out.isExpo /\ ~call.raises

\* C36: a message event whose origin is not the page's origin, or whose
\* payload type is not 'oauth-callback', changes nothing in a polling
\* attempt: it stays unsettled, its listener, interval and timeout stay as
\* they were, and its popup is not closed.
C36_ForeignMessageIgnored ==
    (/\ call.fn = "handleMessage"
     /\ call.arg.at.pc = "polling"
     /\ (call.arg.ev.origin # "same" \/ call.arg.ev.type # "oauth-callback"))
        => /\ call.out.at = call.arg.at
           /\ call.out.at.pc = "polling"
           /\ call.out.at.poll = "live" /\ call.out.at.timeout = "pending"
           /\ call.out.at.closeCalls = call.arg.at.closeCalls
           /\ call.out.w = call.arg.w

\* the page of a pending google attempt, its listener registered and its
\* popup open, received an 'oauth-callback' message with success params from
\* another origin
C36_Witness ==
    /\ call.fn = "handleMessage"
    /\ call.arg.at.provider = "google" /\ call.arg.at.listener = "live"
    /\ ~call.arg.w.closed
    /\ call.arg.ev.origin = "other" /\ call.arg.ev.type = "oauth-callback"
    /\ call.arg.ev.hasParams /\ call.arg.ev.params # DeniedParams
    /\ call.out.at.pc = "polling" /\ call.out.at.listener = "live"

\* C37: over every interleaving of message events, poll ticks, closings by
\* the user and timeouts, the callbacks of an attempt call close() on its
\* popup at most once, and no callback that runs when the attempt is settled
\* calls it.
C37_CloseAtMostOnce ==
    /\ [](\A a \in Attempts : att[a].closeCalls <= 1)
    /\ [][ \A a \in Attempts :
             att[a].pc = "done" => att'[a].closeCalls = att[a].closeCalls ]_vars

\* the timeout of an attempt ran after a message had settled it and closed
\* its popup: close() was called once
C37_Witness ==
    \E a \in Attempts :
        /\ att[a].settledBy = "message"
        /\ att[a].timeout = "fired" /\ att[a].timeoutSaw = "closed"
        /\ att[a].closeCalls = 1

\* C38: in a poll tick the test of popup.closed comes before the reading of
\* the address: a tick that finds the popup of a pending attempt closed
\* settles it with Failure 'Sign-in window was closed', ERR_REQUEST_CANCELED,
\* also when the last address of the popup carried a success marker, and
\* never with a Success.
C38_ClosedBeforeAddress ==
    (call.fn = "pollInterval" /\ call.arg.at.pc = "polling" /\ call.arg.w.closed)
        => /\ call.out.at.pc = "done"
           /\ call.out.at.settledBy = "pollClosed"
           /\ call.out.at.ret = Failure("Sign-in window was closed", "ERR_REQUEST_CANCELED")
           /\ call.out.at.ret.action # "success"
           /\ call.out.at.closeCalls = call.arg.at.closeCalls

\* the popup of a pending attempt was closed while it showed the success
\* address, and the next tick settled the attempt as cancelled
C38_Witness ==
    /\ call.fn = "pollInterval" /\ call.arg.at.pc = "polling"
    /\ call.arg.w.closed
    /\ call.arg.w.loc.readable /\ Includes(call.arg.w.loc.href, "action=success&id=7")
    /\ call.out.at.pc = "done"
    /\ call.out.at.ret.errorCode = "ERR_REQUEST_CANCELED"

\* C39: the promise of login() of the hook, the composable, the store and
\* the service never rejects; a call that ends in the catch block, because
\* the provider name is not recognized or because the orchestrator's promise
\* rejected, resolves to a Failure, and at that moment the adapter's result
\* is that Failure, its error is not null and loading is false.
C39_LoginNeverRejects ==
    /\ [](\A k \in Attempts : adapter.calls[k].pc # "rejected")
    /\ [][ \A k \in Attempts :
             (/\ adapter.calls[k].pc # "resolved"
              /\ adapter'.calls[k].pc = "resolved"
              /\ att'[k].pc \in { "idle", "rejected" })
                 => /\ adapter'.calls[k].ret.action = "failed"
                    /\ adapter'.state.result = adapter'.calls[k].ret
                    /\ adapter'.state.error # "<null>"
                    /\ adapter'.state.error = adapter'.calls[k].ret.error
                    /\ ~adapter'.state.loading ]_vars

\* login() of the composable resolved to a Failure after the orchestrator's
\* promise had rejected
C39_Witness ==
    \E k \in Attempts :
        /\ adapter.kind = "vue"
        /\ att[k].pc = "rejected"
        /\ adapter.calls[k].pc = "resolved"
        /\ adapter.calls[k].ret.action = "failed"
        /\ adapter.last = "resume"
        /\ adapter.state.result = adapter.calls[k].ret
        /\ ~adapter.state.loading

\* C40: from reset() until the next call of login() the state of the adapter
\* has the idle shape (loading false, error null, result null, user null),
\* also when a login() that was started before the reset completes in
\* between.
C40_IdleUntilNextLogin ==
    adapter.afterReset
        => adapter.state =
               IF adapter.kind = "react"
               THEN [ loading |-> FALSE, error |-> "<null>", result |-> [ action |-> "null" ] ]
               ELSE [ loading |-> FALSE, error |-> "<null>", result |-> [ action |-> "null" ],
                      user |-> [ null |-> TRUE ] ]

====
